---- MODULE Spec2Model ----
(***************************************************************************)
(* Model of the query engine of backend/api/services/query_engine.py:      *)
(* the LRU result cache, the metrics counters and gauges, the latency      *)
(* window, the history log, the engine registry and process_query, taken   *)
(* statement by statement so that calls of several threads can interleave. *)
(*                                                                         *)
(* Two specifications share every action:                                  *)
(*   Spec      one caller; operations run one at a time                    *)
(*   SpecConc  two threads; every access to the shared module state is a   *)
(*             step of its own (_inc is a read followed by a write)        *)
(*                                                                         *)
(* The code's caps are 100 (cache, history) and 500 (latency window). The  *)
(* model runs the same code with the caps CacheCapacity, HistoryCap and    *)
(* ExecTimesCap, small enough for every cap to be exceeded in a run.       *)
(***************************************************************************)
EXTENDS Integers, Sequences, FiniteSets, TLC

\* ------------------------------------------------------------------ bounds
\* capacity of the process-wide LRUCache (query_engine.py:53 sets 100)
CacheCapacity == 2
\* cap of _history (query_engine.py:703 uses 100)
HistoryCap == 2
\* cap of _metrics["exec_times"] (query_engine.py:69 uses 500)
ExecTimesCap == 2
\* process_query calls of a run of Spec
MaxCalls == 3
\* process_query calls of a run of SpecConc
MaxConcCalls == 2
\* largest limit given to recent_history
MaxHistLimit == 3
\* largest limit and largest offset given to a call of SpecQuery
MaxLimit == 2
MaxOffset == 2
\* most chunks in the ingestion store of a run of SpecSearch
MaxChunks == 3
\* most files in the batch of an ingestion job
MaxFiles == 3
\* the changes of the database files and of the document store in a run
MaxChanges == 1

\* Python's None where a string is expected (connection_string)
None == "<None>"
\* Python's None where a dict is expected (a cache value, a result)
Absent == [none |-> TRUE]

\* ------------------------------------------------- Python list operations
Min(a, b) == IF a < b THEN a ELSE b
Max(a, b) == IF a > b THEN a ELSE b

\* lst[i:] with Python's index rules (a negative i counts from the end)
PySliceFrom(s, i) ==
    LET n == Len(s)
        start == IF i < 0 THEN Max(0, n + i) ELSE Min(i, n)
    IN  SubSeq(s, start + 1, n)

\* lst[start:end] for 0 <= start, 0 <= end
PySlice(s, start, end) == SubSeq(s, Min(start, Len(s)) + 1, Min(end, Len(s)))

\* del lst[:-n] for n > 0: what is left of lst
DelAllButLast(s, n) == PySliceFrom(s, -n)

\* {**d, name: value}
DictWith(d, name, value) ==
    [f \in DOMAIN d \cup {name} |-> IF f = name THEN value ELSE d[f]]

\* the dict d without the key name
DictWithout(d, name) == [f \in DOMAIN d \ {name} |-> d[f]]

\* ------------------------------------------------------------- LRUCache
\* The OrderedDict of an LRUCache is a sequence of [k, v] entries, the least
\* recently used first.
CacheKeys(c) == {c[i].k : i \in 1..Len(c)}

CacheIndex(c, key) == CHOOSE i \in 1..Len(c) : c[i].k = key

\* OrderedDict.move_to_end(key)
MoveToEnd(c, key) ==
    LET i == CacheIndex(c, key)
    IN  SubSeq(c, 1, i - 1) \o SubSeq(c, i + 1, Len(c)) \o <<c[i]>>

\* OrderedDict.__setitem__: an existing key keeps its place
SetItem(c, key, value) ==
    IF key \in CacheKeys(c)
    THEN [c EXCEPT ![CacheIndex(c, key)].v = value]
    ELSE Append(c, [k |-> key, v |-> value])

\* OrderedDict.popitem(last=False)
PopFirst(c) == Tail(c)

\* LRUCache.get: the value returned
LRUGetValue(c, key) ==
    IF key \notin CacheKeys(c) THEN Absent ELSE c[CacheIndex(c, key)].v

\* LRUCache.get without line 42: a get that does not promote the entry
LRUGetCache_NoPromote(c, key) == c

\* LRUCache.get: the cache it leaves
LRUGetCache(c, key) ==
    IF key \notin CacheKeys(c) THEN c ELSE MoveToEnd(c, key)

\* LRUCache.set with line 49 as len > capacity + 1: it evicts one entry late
LRUSet_EvictLate(c, capacity, key, value) ==
    LET moved  == IF key \in CacheKeys(c) THEN MoveToEnd(c, key) ELSE c
        stored == SetItem(moved, key, value)
    IN  IF Len(stored) > capacity + 1 THEN PopFirst(stored) ELSE stored

\* LRUCache.set
LRUSet(c, capacity, key, value) ==
    LET moved  == IF key \in CacheKeys(c) THEN MoveToEnd(c, key) ELSE c
        stored == SetItem(moved, key, value)
    IN  IF Len(stored) > capacity THEN PopFirst(stored) ELSE stored

\* ----------------------------------------------------------------- inputs
\* A query is its text, word by word.
QList == <<"list", "employees">>
QDoc == <<"resume">>
QHybrid == <<"employees", "resume">>
Queries == {QList, QDoc, QHybrid}

DefaultConnStr == "sqlite:///example.db"
EmptyConnStr == "sqlite:///empty.db"
ConnStrings == {None, EmptyConnStr}

\* ------------------------------------------------------------ databases
\* Four of the employees and two of the departments of create_sample_db.py,
\* by attribute. A text is the sequence of its words, lower-cased as LIKE
\* and lower() compare them; an attribute that is NULL is left out.
People ==
    << [id |-> 1, name |-> <<"john", "smith">>,
        email |-> <<"john@company.com">>, dept |-> 10,
        position |-> <<"director", "of", "engineering">>, salary |-> 220000,
        hire_date |-> <<"2020", "04", "01">>, location |-> <<"sf">>,
        skills |-> <<"leadership", "architecture">>],
       [id |-> 3, name |-> <<"bob", "smith">>,
        email |-> <<"bob@company.com">>, dept |-> 10,
        position |-> <<"python", "developer">>, salary |-> 140000,
        hire_date |-> <<"2024", "03", "20">>, location |-> <<"sf">>,
        skills |-> <<"python", "django", "postgresql">>,
        reports_to |-> <<"john", "smith">>],
       [id |-> 4, name |-> <<"carol", "white">>,
        email |-> <<"carol@company.com">>, dept |-> 20,
        position |-> <<"marketing", "manager">>, salary |-> 130000,
        hire_date |-> <<"2022", "06", "10">>, location |-> <<"nyc">>,
        skills |-> <<"seo", "content", "strategy">>,
        reports_to |-> <<"dana", "scott">>],
       [id |-> 13, name |-> <<"empty", "case">>, location |-> <<>>,
        skills |-> <<>>] >>

Departments ==
    << [id |-> 10, name |-> <<"engineering">>, manager_id |-> 1],
       [id |-> 20, name |-> <<"marketing">>, manager_id |-> 4] >>

\* the attributes of the columns a table may do without
Optional == {"email", "skills", "reports_to"}

\* the column names of create_sample_db.py, and of the other schemas
\* _detect_schema knows, by attribute
Schemas ==
    [simplified |->
        [id |-> "emp_id", name |-> "full_name", email |-> "email",
         dept |-> "dept_id", position |-> "position",
         salary |-> "annual_salary", hire_date |-> "join_date",
         location |-> "office_location", skills |-> "skills",
         reports_to |-> "reports_to"],
     simplified_dept |->
        [id |-> "dept_id", name |-> "dept_name", manager_id |-> "manager_id"],
     canonical |->
        [id |-> "id", name |-> "name", email |-> "email",
         dept |-> "department_id", position |-> "position",
         salary |-> "salary", hire_date |-> "hire_date", skills |-> "skills",
         reports_to |-> "reports_to"],
     canonical_dept |-> [id |-> "id", name |-> "name"],
     staff |->
        [id |-> "id", name |-> "name", email |-> "email",
         dept |-> "department", position |-> "role",
         salary |-> "compensation", hire_date |-> "hired_on",
         skills |-> "skills", reports_to |-> "reports_to"],
     personnel |->
        [id |-> "person_id", name |-> "employee_name", email |-> "email",
         dept |-> "division", position |-> "title", salary |-> "pay_rate",
         hire_date |-> "start_date", skills |-> "skills",
         reports_to |-> "reports_to"],
     division |-> [id |-> "division_code", name |-> "division_name"]]

\* The databases behind the connection strings: example.db is the database
\* of create_sample_db.py, empty.db holds no table at all, the others hold
\* the same rows under each schema, with and without the optional columns.
\* A database is an employee table and, maybe, a department table ("":
\* none); a row holds the attributes of its record under the column names
\* of the table.
Databases ==
    LET RowOf(rec, cols) ==
            LET held == {a \in DOMAIN rec : a \in DOMAIN cols}
                AttrOf(c) == CHOOSE a \in held : cols[a] = c
            IN  [c \in {cols[a] : a \in held} |-> rec[AttrOf(c)]]
        RowsOf(recs, cols) == [i \in 1..Len(recs) |-> RowOf(recs[i], cols)]
        ColumnsOf(cols) == {cols[a] : a \in DOMAIN cols}
        MakeDb(et, ecols, dt, dcols) ==
            IF dt = ""
            THEN [tables |-> {et},
                  columns |-> [t \in {et} |-> ColumnsOf(ecols)],
                  rows |-> [t \in {et} |-> RowsOf(People, ecols)]]
            ELSE [tables |-> {et, dt},
                  columns |-> [t \in {et, dt} |->
                                 IF t = et THEN ColumnsOf(ecols)
                                 ELSE ColumnsOf(dcols)],
                  rows |-> [t \in {et, dt} |->
                              IF t = et THEN RowsOf(People, ecols)
                              ELSE RowsOf(Departments, dcols)]]
        Without(cols, attrs) == [a \in DOMAIN cols \ attrs |-> cols[a]]
    IN  [cs \in {DefaultConnStr, EmptyConnStr,
                 "sqlite:///simplified_min.db", "sqlite:///canonical.db",
                 "sqlite:///canonical_min.db", "sqlite:///staff.db",
                 "sqlite:///staff_min.db", "sqlite:///personnel.db",
                 "sqlite:///personnel_min.db"} |->
           CASE cs = DefaultConnStr ->
                    MakeDb("employees", Schemas.simplified, "departments",
                           Schemas.simplified_dept)
             [] cs = "sqlite:///simplified_min.db" ->
                    MakeDb("employees", Without(Schemas.simplified, Optional),
                           "departments", Schemas.simplified_dept)
             [] cs = "sqlite:///canonical.db" ->
                    MakeDb("employees", Schemas.canonical, "departments",
                           Schemas.canonical_dept)
             [] cs = "sqlite:///canonical_min.db" ->
                    MakeDb("employees", Without(Schemas.canonical, Optional),
                           "departments", Schemas.canonical_dept)
             [] cs = "sqlite:///staff.db" ->
                    MakeDb("staff", Schemas.staff, "", <<>>)
             [] cs = "sqlite:///staff_min.db" ->
                    MakeDb("staff", Without(Schemas.staff, Optional), "",
                           <<>>)
             [] cs = "sqlite:///personnel.db" ->
                    MakeDb("personnel", Schemas.personnel, "divisions",
                           Schemas.division)
             [] cs = "sqlite:///personnel_min.db" ->
                    MakeDb("personnel", Without(Schemas.personnel, Optional),
                           "", <<>>)
             [] OTHER -> [tables |-> {}, columns |-> <<>>, rows |-> <<>>]]

Database(conn_str) == Databases[conn_str]

\* the arguments of one process_query call: the listing at two offsets, the
\* document query at two document offsets, and the hybrid query on the
\* database whose statement raises
Requests ==
    {r \in [q : Queries, cs : ConnStrings, limit : {2}, offset : {0, 1},
            doc_limit : {1}, doc_offset : {0, 1}] :
        /\ r.offset = 1 => r.q = QList
        /\ r.doc_offset = 1 => r.q = QDoc
        /\ (r.cs = EmptyConnStr <=> r.q = QHybrid)}

\* The requests of a run of SpecQuery, which makes one call: more queries,
\* every state of the document store for the queries that reach the search.
QResume == <<"resume", "with", "Python", "skills">>
QHello == <<"hello">>
QInterns == <<"Python", "interns">>
QSenior == <<"senior", "employees">>
QHired20 == <<"employees", "hired", "in", "2020">>
QHired24 == <<"employees", "hired", "in", "2024">>
QPython == <<"Python", "employees">>

WideQueries ==
    Queries \cup
    {QResume, QHello, QInterns, QSenior, QHired20, QHired24, QPython} \cup
    {<<"list", "vendors">>,
     <<"count", "employees", "contractors">>,
     <<"list", "departments">>,
     <<"Python", "developers", "in", "Marketing">>,
     <<"employees", "without", "email">>,
     <<"interns", "without", "email">>,
     <<"bob@company.com", "without", "email">>,
     <<"employees", "in", "department", "Engineering">>,
     <<"employees", "in", "department", "Marketing">>,
     <<"who", "reports", "to", "John", "Smith">>,
     <<"How", "many", "employees", "are", "in", "Engineering">>,
     <<"find", "John">>,
     <<"find", "Bob">>,
     <<"employee", "id", "3">>,
     <<"email:", "bob@company.com">>,
     <<"top", "3", "salary", "per", "department">>,
     <<"top", "5", "salary", "per", "department">>,
     <<"average", "salary", "by", "department">>,
     <<"average", "salary", "of", "employees", "by", "department">>,
     <<"java", "employees">>,
     <<"Python", "sql", "employees">>,
     <<"senior", "employees", "in", "Marketing">>,
     <<"list", "employees", "departments">>}

\* the queries asked for at every limit and offset
PagedQueries == {QList, QPython, QSenior}

WideConnStrings == {None} \cup (DOMAIN Databases \ {DefaultConnStr})
WideRequests ==
    {r \in [q : WideQueries, cs : WideConnStrings, limit : 0..MaxLimit,
            offset : 0..MaxOffset, doc_limit : {1}, doc_offset : {0}] :
        r.q \notin PagedQueries => (r.limit = MaxLimit /\ r.offset = 0)}

\* ---------------------------------------------------------------- words
\* str.lower(), word by word
lower(q) ==
    LET LowerWord(w) ==
            CASE w = "Python"      -> "python"
              [] w = "Marketing"   -> "marketing"
              [] w = "Engineering" -> "engineering"
              [] w = "John"        -> "john"
              [] w = "Smith"       -> "smith"
              [] w = "Bob"         -> "bob"
              [] w = "How"         -> "how"
              [] OTHER             -> w
    IN  [i \in 1..Len(q) |-> LowerWord(q[i])]

\* the words that \d+ matches, with int() of each; those that \d{4} matches
Num(w) ==
    CASE w = "3" -> 3 [] w = "5" -> 5 [] w = "2020" -> 2020
      [] w = "2022" -> 2022 [] w = "2024" -> 2024
Digits == {"3", "5", "2020", "2022", "2024"}
\* the words that [A-Za-z0-9._%+-]+@[A-Za-z0-9.-]+\.[A-Za-z]{2,} matches
EmailWords == {"john@company.com", "bob@company.com", "carol@company.com"}

\* the words that [a-zA-Z]+ matches as a whole
Alpha(w) == w \notin Digits \cup EmailWords \cup {"email:"}

\* The calls of a run of SpecConc: one request of each query type, the
\* hybrid one on the database whose statement raises, and one latency.
ConcRequests == {r \in Requests : r.offset = 0 /\ r.doc_offset = 0}
\* ---------------------------------------------------------------- routing
\* k in q, for a keyword k and the text q: k is part of one of q's words
PartOf(k, w) ==
    LET
        \* The words of the queries and of the databases that hold another
        \* one of these words, or a keyword of the code, as a part:
        \* <<part, word>>.
        Substrings ==
            {<<"bob", "bob@company.com">>, <<"carol", "carol@company.com">>,
             <<"contract", "contractors">>, <<"department", "departments">>,
             <<"developer", "developers">>, <<"email", "email:">>,
             <<"employee", "employees">>, <<"engineer", "engineering">>,
             <<"in", "engineering">>, <<"in", "find">>, <<"in", "interns">>,
             <<"in", "marketing">>, <<"john", "john@company.com">>,
             <<"per", "developer">>, <<"per", "developers">>,
             <<"sql", "postgresql">>, <<"to", "contractors">>,
             <<"to", "director">>, <<"to", "top">>, <<"with", "without">>}
    IN  k = w \/ <<k, w>> \in Substrings

Mentions(q, keys) == \E i \in 1..Len(q) : \E k \in keys : PartOf(k, q[i])

HasWord(q, words) == \E i \in 1..Len(q) : q[i] \in words

\* lines 117-121: the keywords of a structured-data cue (matched anywhere in
\* the text), the skill and role tokens (matched as whole words), and the
\* keywords of a document cue (matched anywhere)
sql_keys == {"employee", "employees", "department", "dept", "hired",
             "salary", "role", "position"}
skill_role_signals == {"python", "javascript", "sql", "nlp", "ml",
                       "developer", "engineer", "manager"}
doc_keys == {"resume", "document", "pdf", "contract", "clause", "policy",
             "termination"}

\* line 123 without the skill and role tokens
_classify_NoSkillSignals(query) ==
    LET q == lower(query)
        has_sql == Mentions(q, sql_keys)
        has_doc == Mentions(q, doc_keys)
    IN  IF has_sql /\ has_doc THEN "hybrid"
        ELSE IF has_sql THEN "sql"
        ELSE IF has_doc THEN "document"
        ELSE "sql"

\* line 132 as return "document"
_classify_NeitherIsDocument(query) ==
    LET q == lower(query)
        has_sql == Mentions(q, sql_keys) \/ HasWord(q, skill_role_signals)
        has_doc == Mentions(q, doc_keys)
    IN  IF has_sql /\ has_doc THEN "hybrid"
        ELSE IF has_sql THEN "sql"
        ELSE "document"

_classify(query) ==
    LET q == lower(query)
        has_sql == Mentions(q, sql_keys) \/ HasWord(q, skill_role_signals)
        has_doc == Mentions(q, doc_keys)
    IN  IF has_sql /\ has_doc THEN "hybrid"
        ELSE IF has_sql THEN "sql"
        ELSE IF has_doc THEN "document"
        ELSE "sql"

\* a cache key that also holds the offsets
CacheKey_WithOffsets(r) ==
    [cs |-> r.cs, l |-> r.limit, q |-> r.q, o |-> r.offset, d |-> r.doc_offset]

\* json.dumps({"q": .., "cs": .., "l": ..}, sort_keys=True): one string per
\* (query, connection string, limit), and no other argument in it
CacheKey(r) == [cs |-> r.cs, l |-> r.limit, q |-> r.q]

\* ---------------------------------------------------------- SQL generation
\* lines 138-146: lower-cased, each word that is a key of synonyms replaced
\* (\bk\b)
_normalize_tokens(query) ==
    LET Synonym(w) ==
            CASE w = "dept"         -> "department"
              [] w = "division"     -> "department"
              [] w = "compensation" -> "salary"
              [] w = "pay"          -> "salary"
              [] w = "staff"        -> "employees"
              [] w = "emp"          -> "employees"
              [] w = "departements" -> "departments"
              [] OTHER              -> w
    IN  [i \in 1..Len(query) |-> Synonym(lower(query)[i])]

\* the normalized words of the queries that [a-zA-Z]+ matches
AlphaWords ==
    LET Vocabulary ==
            UNION {{_normalize_tokens(q)[i] : i \in 1..Len(q)} :
                     q \in WideQueries}
    IN  {w \in Vocabulary : Alpha(w)}

\* A regular expression over the words of a text is a sequence of sets of
\* words: it matches at i when the words from i on are in its sets, in order.
MatchAt(q, i, pat) ==
    /\ i >= 1
    /\ i + Len(pat) - 1 <= Len(q)
    /\ \A j \in 1..Len(pat) : q[i + j - 1] \in pat[j]

\* re.search(pat, q) is not None
Found(q, pat) == \E i \in 1..Len(q) : MatchAt(q, i, pat)

\* where re.search matches: the leftmost place (0: nowhere)
FirstAt(q, pat) ==
    IF ~Found(q, pat) THEN 0
    ELSE CHOOSE i \in 1..Len(q) :
            /\ MatchAt(q, i, pat)
            /\ \A k \in 1..(i - 1) : ~MatchAt(q, k, pat)

\* re.search(a, q) or re.search(b, q), for patterns of one set each
FoundAny(q, pats) == \E pat \in pats : Found(q, pat)

\* lines 152-165
_infer_intent(q) ==
    IF FoundAny(q, {<<{"how"}, {"many"}>>, <<{"count"}>>,
                    <<{"number"}, {"of"}>>})
    THEN "count"
    ELSE IF /\ Found(q, <<{"average"}, {"salary"}>>)
            /\ Found(q, <<{"department"}>>)
    THEN "avg_by_dept"
    ELSE IF /\ Found(q, <<{"top"}, Digits>>)
            /\ FoundAny(q, {<<{"each"}, {"department"}>>,
                            <<{"per"}, {"department"}>>})
    THEN "top_paid_each_dept"
    ELSE IF \/ Found(q, <<{"email:", "email="}>>)
            \/ Found(q, <<{"id", "id:", "id="}, Digits>>)
            \/ Found(q, <<{"which"}, {"employee"}>>)
    THEN "find_one"
    ELSE "select"

\* A text (a column value, a bound value) is the sequence of its words; a
\* fragment of SQL is the sequence of its tokens, each column, placeholder
\* and bound-parameter name a token of its own.

\* f"%{x}%"
Like(words) == <<"%">> \o words \o <<"%">>

\* one filter of _infer_filters: what it appends to where and adds to params
Filter(frag, params) == <<[frag |-> frag, params |-> params]>>
OneParam(name, value) == [k \in {name} |-> value]

\* {**a, **b}
Merge(a, b) ==
    [k \in DOMAIN a \cup DOMAIN b |-> IF k \in DOMAIN b THEN b[k] ELSE a[k]]

\* lines 174-198
HireFilters(q) ==
    LET Digits4 == {"2020", "2022", "2024"}
        
        \* lines 178-192: hired in|on|after|since|before <year>
        YearFilter(pat, op, name) ==
            LET i == FirstAt(q, pat)
            IN  IF i = 0 THEN <<>>
                ELSE Filter(<<"strftime('%Y',", "E_HIRE_COL", ")", op, ":" \o name>>,
                            OneParam(name, <<q[i + 2]>>))
        between == FirstAt(q, <<{"hired"}, {"between"}, Digits4, {"and"},
                               Digits4>>)
    IN  (IF Found(q, <<{"this"}, {"year"}>>)
         THEN Filter(<<"strftime('%Y',", "E_HIRE_COL", ")", "=",
                       "strftime('%Y', 'now')">>, <<>>)
         ELSE <<>>)
        \o YearFilter(<<{"hired"}, {"in", "on"}, Digits4>>, "=", "year_in")
        \o YearFilter(<<{"hired"}, {"after", "since"}, Digits4>>, ">",
                      "year_after")
        \o YearFilter(<<{"hired"}, {"before"}, Digits4>>, "<",
                      "year_before")
        \o (IF between = 0 THEN <<>>
            ELSE Filter(<<"strftime('%Y',", "E_HIRE_COL", ")", "BETWEEN",
                          ":year_b1", "AND", ":year_b2">>,
                        Merge(OneParam("year_b1", <<q[between + 2]>>),
                              OneParam("year_b2", <<q[between + 4]>>))))

\* lines 202-207: one filter for each skill keyword found, in order
SkillWords == {"python", "java", "javascript", "sql", "nlp", "ml", "react",
               "django", "postgresql"}

\* the skill filters if the name of the bound parameter told the keyword:
\* java counts from 1
RECURSIVE SkillFilters_KeyByWord(_, _)
SkillFilters_KeyByWord(skills, i) ==
    IF i >= Len(skills) THEN <<>>
    ELSE LET key == "skill_kw_"
                    \o ToString(IF skills[i + 1] = "java" THEN i + 1 ELSE i)
         IN  Filter(<<"(", "E_SKILLS_COL", "LIKE", ":" \o key, "OR",
                      "e.position", "LIKE", ":" \o key, ")">>,
                    OneParam(key, Like(<<skills[i + 1]>>)))
             \o SkillFilters_KeyByWord(skills, i + 1)

RECURSIVE SkillFilters(_, _)
SkillFilters(skills, i) ==
    IF i >= Len(skills) THEN <<>>
    ELSE LET key == "skill_kw_" \o ToString(i)
         IN  Filter(<<"(", "E_SKILLS_COL", "LIKE", ":" \o key, "OR",
                      "e.position", "LIKE", ":" \o key, ")">>,
                    OneParam(key, Like(<<skills[i + 1]>>)))
             \o SkillFilters(skills, i + 1)

\* the number of words from i on that [a-zA-Z]+ matches, one after another
RECURSIVE AlphaRun(_, _)
AlphaRun(q, i) ==
    IF i > Len(q) \/ ~Alpha(q[i]) THEN 0 ELSE 1 + AlphaRun(q, i + 1)

\* lines 211-215: reports to <two names or more>
ReportsFilter(q) ==
    LET at(i) == MatchAt(q, i, <<{"reports"}, {"to"}>>) /\ AlphaRun(q, i + 2) >= 2
        S == {i \in 1..Len(q) : at(i)}
        i == CHOOSE x \in S : \A y \in S : x <= y
    IN  IF S = {} THEN <<>>
        ELSE Filter(<<"lower(", "e.reports_to", ")", "=", "lower(",
                      ":reports_to_name", ")">>,
                    OneParam("reports_to_name",
                             SubSeq(q, i + 2, i + 1 + AlphaRun(q, i + 2))))

\* lines 218-221: emp_id <n>, or else id <n>
IdFilter(q) ==
    LET a == FirstAt(q, <<{"emp_id", "emp_id="}, Digits>>)
        b == FirstAt(q, <<{"id", "id="}, Digits>>)
        i == IF a # 0 THEN a ELSE b
    IN  IF i = 0 THEN <<>>
        ELSE Filter(<<"E_ID_COL", "=", ":id_exact">>,
                    OneParam("id_exact", Num(q[i + 1])))

\* lines 224-227
EmailFilter(q) ==
    LET i == FirstAt(q, <<EmailWords>>)
    IN  IF i = 0 THEN <<>>
        ELSE Filter(<<"lower(", "E_EMAIL_COL", ")", "=", "lower(",
                      ":email_exact", ")">>,
                    OneParam("email_exact", <<q[i]>>))

MissingFilters(q) ==
    LET
        \* lines 230-265: the "field is missing" filters, each a placeholder
        MissingFilter(pats, placeholder) ==
            IF FoundAny(q, pats) THEN Filter(<<placeholder>>, <<>>) ELSE <<>>
        NoWords == {"no", "missing", "empty"}
    IN  MissingFilter({<<NoWords, {"email", "emails"}>>,
                          <<{"without"}, {"email", "emails", "email:"}>>},
                      "EMAIL_IS_MISSING")
        \o MissingFilter({<<NoWords, {"name"}>>, <<{"without"}, {"name"}>>},
                         "NAME_IS_MISSING")
        \o MissingFilter({<<NoWords, {"skill", "skills"}>>,
                             <<{"without"}, {"skill", "skills"}>>},
                         "SKILLS_IS_MISSING")
        \o MissingFilter({<<NoWords, {"department", "departments"}>>,
                             <<{"without"}, {"department", "departments"}>>},
                         "DEPARTMENT_IS_MISSING")
        \o MissingFilter({<<NoWords, {"position", "positions"}>>,
                             <<{"without"}, {"position", "positions"}>>},
                         "POSITION_IS_MISSING")
        \o MissingFilter({<<NoWords, {"salary"}>>, <<{"without"}, {"salary"}>>},
                         "SALARY_IS_MISSING")
        \o MissingFilter({<<NoWords, {"hire", "join"}, {"date"}>>,
                             <<{"without"}, {"hire", "join"}, {"date"}>>},
                         "HIRE_DATE_IS_MISSING")
        \o MissingFilter({<<NoWords, {"report", "reports"}, {"to"}>>,
                             <<NoWords, {"reportto", "reportsto"}>>,
                             <<{"without"}, {"manager"}>>,
                             <<{"without"}, {"report", "reports"}, {"to"}>>,
                             <<{"without"}, {"reportto", "reportsto"}>>},
                         "REPORTS_TO_IS_MISSING")

DeptFilter(q) ==
    LET
        \* lines 268-271: department [is] <word>; the word captured at i ("": none)
        DeptWordAt(i) ==
            IF MatchAt(q, i, <<{"department"}, {"is"}, AlphaWords>>) THEN q[i + 2]
            ELSE IF MatchAt(q, i, <<{"department"}, AlphaWords>>) THEN q[i + 1]
            ELSE ""
        S == {i \in 1..Len(q) : DeptWordAt(i) # ""}
        i == CHOOSE x \in S : \A y \in S : x <= y
    IN  IF S = {} THEN <<>>
        ELSE Filter(<<"d.name", "LIKE", ":dept_kw">>,
                    OneParam("dept_kw", Like(<<DeptWordAt(i)>>)))

RECURSIVE PosScan(_, _)
PosScan(q, i) ==
    LET
        \* line 275: the position keywords found, in order, each the text matched
        PosWords == {"senior", "junior", "developer", "engineer", "manager",
                     "fullstack", "marketing", "hr"}
    IN  IF i > Len(q) THEN <<>>
        ELSE IF q[i] \in PosWords THEN <<(<<q[i]>>)>> \o PosScan(q, i + 1)
        ELSE IF MatchAt(q, i, <<{"full"}, {"stack"}>>)
             THEN <<(<<"full", "stack">>)>> \o PosScan(q, i + 2)
        ELSE PosScan(q, i + 1)

\* lines 276-283
PosFilter(q) ==
    LET
        \* " OR ".join(like_clauses), from the clause of index i on
        RECURSIVE PosLikes(_, _)
        PosLikes(n, i) ==
            IF i >= n THEN <<>>
            ELSE (IF i > 0 THEN <<"OR">> ELSE <<>>)
                 \o <<"e.position", "LIKE", ":pos_kw_" \o ToString(i)>>
                 \o PosLikes(n, i + 1)
        pos == PosScan(q, 1)
        n   == Len(pos)
        keys == {"pos_kw_" \o ToString(i) : i \in 0..(n - 1)}
        IndexOfKey(k) == CHOOSE i \in 0..(n - 1) : k = "pos_kw_" \o ToString(i)
    IN  IF n = 0 THEN <<>>
        ELSE Filter(<<"(">> \o PosLikes(n, 0) \o <<")">>,
                    [k \in keys |-> Like(pos[IndexOfKey(k) + 1])])

\* lines 287-292: one word or two, two letters at least
NameFilter(q) ==
    LET
        \* line 287: where the name starts when the expression matches at i (0: it
        \* does not): after "show me", "find", "employee named" or "employee"
        NameStartAt(i) ==
            IF MatchAt(q, i, <<{"show"}, {"me"}, AlphaWords>>) THEN i + 2
            ELSE IF MatchAt(q, i, <<{"find"}, AlphaWords>>) THEN i + 1
            ELSE IF MatchAt(q, i, <<{"employee"}, {"named"}, AlphaWords>>) THEN i + 2
            ELSE IF MatchAt(q, i, <<{"employee"}, AlphaWords>>) THEN i + 1
            ELSE 0
        S == {i \in 1..Len(q) : NameStartAt(i) # 0}
        i == CHOOSE x \in S : \A y \in S : x <= y
        start == NameStartAt(i)
        n == SubSeq(q, start, start + Min(AlphaRun(q, start), 2) - 1)
    IN  IF S = {} THEN <<>>
        ELSE IF Len(n) = 1 /\ Len(n[1]) < 2 THEN <<>>
        ELSE Filter(<<"E_NAME_COL", "LIKE", ":name_like">>,
                    OneParam("name_like", Like(n)))

\* lines 168-294: the filters in the order the code looks for them
_infer_filters(q) ==
    LET
        \* " AND ".join(where)
        RECURSIVE JoinAnd(_)
        JoinAnd(filters) ==
            IF filters = <<>> THEN <<>>
            ELSE IF Len(filters) = 1 THEN filters[1].frag
            ELSE filters[1].frag \o <<" AND ">> \o JoinAnd(Tail(filters))
        RECURSIVE ParamsOf(_)
        ParamsOf(filters) ==
            IF filters = <<>> THEN <<>>
            ELSE Merge(filters[1].params, ParamsOf(Tail(filters)))
        \* line 294: " AND ".join(where), params
        Inferred(filters) ==
            [where |-> JoinAnd(filters), params |-> ParamsOf(filters)]
    IN  Inferred(HireFilters(q)
                 \o SkillFilters(SelectSeq(q, LAMBDA w : w \in SkillWords), 0)
                 \o ReportsFilter(q)
                 \o IdFilter(q)
                 \o EmailFilter(q)
                 \o MissingFilters(q)
                 \o DeptFilter(q)
                 \o PosFilter(q)
                 \o NameFilter(q))

\* ------------------------------------------------------- schema detection
\* lines 297-385
_detect_schema(db) ==
    LET
        \* lines 308-326: the default mapping
        DefaultMapping ==
            [emp_table |-> "employees", dept_table |-> "departments",
             emp |-> [id |-> "id", name |-> "name", email |-> "email",
                      position |-> "position", salary |-> "salary",
                      hire_date |-> "hire_date", skills |-> "skills",
                      dept_fk |-> "department_id", reports_to |-> "reports_to"],
             dept |-> [id |-> "id", name |-> "name"]]
        \* "c" if "c" in cols else None
        IfPresent(c, cols) == IF c \in cols THEN c ELSE None
        \* the keys of a column description of insp.get_columns
        ColumnInfoKeys == {"name", "type", "nullable", "default", "primary_key"}
        tables == db.tables
    IN  IF "employees" \in tables
        THEN LET emp_cols  == db.columns["employees"]
                 dept_cols == IF "departments" \in tables
                              THEN db.columns["departments"] ELSE {}
             IN  IF {"emp_id", "full_name", "dept_id", "join_date"}
                        \subseteq emp_cols
                 THEN [emp_table |-> "employees",
                       dept_table |-> IF "departments" \in tables
                                      THEN "departments" ELSE None,
                       emp |-> [id |-> "emp_id", name |-> "full_name",
                                email |-> IfPresent("email", emp_cols),
                                position |-> "position",
                                salary |-> "annual_salary",
                                hire_date |-> "join_date",
                                skills |-> IfPresent("skills", emp_cols),
                                dept_fk |-> "dept_id",
                                reports_to |->
                                    IfPresent("reports_to", emp_cols)],
                       dept |-> IF {"dept_id", "dept_name"} \subseteq dept_cols
                                THEN [id |-> "dept_id", name |-> "dept_name"]
                                ELSE Absent]
                 ELSE DefaultMapping
        ELSE IF "staff" \in tables
        THEN [emp_table |-> "staff", dept_table |-> None,
              emp |-> [id |-> "id", name |-> "name",
                       \* line 358: "email" either way
                       email |-> IF "email" \in ColumnInfoKeys
                                 THEN "email" ELSE "email",
                       position |-> "role", salary |-> "compensation",
                       hire_date |-> "hired_on",
                       skills |-> IfPresent("skills", db.columns["staff"]),
                       dept_fk |-> "department",
                       reports_to |-> "reports_to"],
              dept |-> Absent]
        ELSE IF "personnel" \in tables
        THEN LET cols == db.columns["personnel"]
             IN  [emp_table |-> "personnel",
                  dept_table |-> IF "divisions" \in tables
                                 THEN "divisions" ELSE None,
                  emp |-> [id |-> "person_id", name |-> "employee_name",
                           email |-> IfPresent("email", cols),
                           position |-> "title", salary |-> "pay_rate",
                           hire_date |-> "start_date",
                           skills |-> IfPresent("skills", cols),
                           dept_fk |-> "division",
                           reports_to |-> IfPresent("reports_to", cols)],
                  dept |-> IF "divisions" \in tables
                           THEN [id |-> "division_code",
                                 name |-> "division_name"]
                           ELSE Absent]
        ELSE DefaultMapping

\* --------------------------------------------------------- _run_sql: SQL
\* x or default, for a column name x
OrName(x, default) == IF x = None THEN default ELSE x

\* str.replace(tok, ..) on a fragment: every token tok gives way to by
RECURSIVE Replace(_, _, _)
Replace(toks, tok, by) ==
    IF toks = <<>> THEN <<>>
    ELSE (IF Head(toks) = tok THEN by ELSE <<Head(toks)>>)
         \o Replace(Tail(toks), tok, by)

Has(toks, tok) == \E i \in 1..Len(toks) : toks[i] = tok

\* _run_sql without the loop of lines 438-447
MissingEntity_Unguarded(qn, insp_tables) == ""

\* lines 429-447: the table of the first entity keyword of qn whose table the
\* database lacks ("": none)
MissingEntity(qn, insp_tables) ==
    LET entity_tables ==
            << <<"contractors", "contractors">>, <<"vendor", "vendors">>,
               <<"vendors", "vendors">>, <<"intern", "interns">>,
               <<"interns", "interns">>, <<"project", "projects">>,
               <<"projects", "projects">> >>
        S == {i \in 1..Len(entity_tables) :
                /\ Found(qn, <<{entity_tables[i][1]}>>)
                /\ entity_tables[i][2] \notin insp_tables}
    IN  IF S = {} THEN ""
        ELSE entity_tables[CHOOSE i \in S : \A j \in S : i <= j][2]

\* None where a statement is expected: the statement of no token
NoSql == <<>>

\* the envelopes of _run_sql's early returns with every message an error
NotRun_AsError(field, message) ==
    [type |-> "sql", sql |-> NoSql, params |-> <<>>, rows |-> <<>>,
     pagination |-> Absent, error |-> message]

\* the envelope of lines 440-447, 461-468 and 484-491: nothing was run
NotRun(field, message) ==
    [k \in {"type", "sql", "params", "rows", "pagination", field} |->
        CASE k = "type"       -> "sql"
          [] k = "sql"        -> NoSql
          [] k = "params"     -> <<>>
          [] k = "rows"       -> <<>>
          [] k = "pagination" -> Absent
          [] k = field        -> message]

\* lines 413-421: the column names _run_sql works with
ColumnsUsed(e) ==
    [id |-> e.id, name |-> e.name, email |-> e.email, pos |-> e.position,
     sal |-> OrName(e.salary, "annual_salary"), hire |-> e.hire_date,
     skills |-> e.skills, deptfk |-> e.dept_fk,
     reports |-> OrName(e.reports_to, "reports_to")]

\* lines 450-476: the column placeholders; ret is the envelope returned at
\* line 461 (Absent: none)
ResolveColumns(where, c) ==
    LET w1 == Replace(where, "e.salary_col", <<"e." \o c.sal>>)
        w2 == Replace(w1, "E_HIRE_COL",
                      <<"e." \o OrName(c.hire, "join_date")>>)
        w3 == Replace(w2, "E_ID_COL", <<"e." \o c.id>>)
        w4 == IF c.email # None
              THEN Replace(w3, "E_EMAIL_COL", <<"e." \o c.email>>) ELSE w3
        w5 == Replace(w4, "E_NAME_COL", <<"e." \o c.name>>)
        w6 == IF c.skills # None
              THEN Replace(w5, "E_SKILLS_COL", <<"e." \o c.skills>>)
              ELSE Replace(w5, "E_SKILLS_COL", <<"0 /* no skills col */">>)
    IN  IF Has(w3, "E_EMAIL_COL") /\ c.email = None
        THEN [ret |-> NotRun("error",
                 "error: not present in your database (email column missing)"),
              where |-> w3]
        ELSE [ret |-> Absent, where |-> w6]

\* lines 479-521: the "field is missing" placeholders; ret is the envelope
\* returned at line 484 (Absent: none)
ResolveMissing(where, c) ==
    LET
        \* f"(e.{col} IS NULL OR e.{col} = '')"
        NullOrEmpty(col) ==
            <<"(", "e." \o col, "IS NULL", "OR", "e." \o col, "= ''", ")">>
        w1 == IF c.email # None
              THEN Replace(where, "EMAIL_IS_MISSING", NullOrEmpty(c.email))
              ELSE where
        w2 == Replace(w1, "NAME_IS_MISSING", NullOrEmpty(c.name))
        w3 == Replace(w2, "SKILLS_IS_MISSING",
                      IF c.skills # None THEN NullOrEmpty(c.skills)
                      ELSE <<"1=0">>)
        w4 == Replace(w3, "DEPARTMENT_IS_MISSING",
                      IF c.deptfk # None
                      THEN <<"(", "e." \o c.deptfk, "IS NULL", ")">>
                      ELSE <<"1=0">>)
        w5 == Replace(w4, "POSITION_IS_MISSING",
                      IF c.pos # None THEN NullOrEmpty(c.pos) ELSE <<"1=0">>)
        w6 == Replace(w5, "SALARY_IS_MISSING",
                      <<"(", "e." \o c.sal, "IS NULL", ")">>)
        w7 == Replace(w6, "HIRE_DATE_IS_MISSING",
                      NullOrEmpty(OrName(c.hire, "join_date")))
        w8 == Replace(w7, "REPORTS_TO_IS_MISSING",
                      IF c.reports # None THEN NullOrEmpty(c.reports)
                      ELSE <<"1=0">>)
    IN  IF Has(where, "EMAIL_IS_MISSING") /\ c.email = None
        THEN [ret |-> NotRun("warning",
                 "Email column not present; cannot filter for missing email."),
              where |-> where]
        ELSE [ret |-> Absent, where |-> w8]

\* lines 545-601: the statement, its companion count (NoSql: none) and the
\* bound parameters, given the filters with their placeholders resolved
Statement(qn, where, params, m, limit, offset, intent) ==
    LET
        \* f" WHERE {where}"
        WhereClause(where0) == <<"WHERE">> \o where0
        \* lines 525-543: dedup_cte, the select list, dept_join and base
        BaseSql(c) ==
            LET et == m.emp_table
                dt == m.dept_table
                d  == m.dept
                dedup_cte ==
                    IF c.email # None
                    THEN <<"WITH latest AS (SELECT", c.email, "AS email, MAX(", c.id,
                           ") AS max_id FROM", et, "GROUP BY", c.email, ")">>
                    ELSE <<>>
                joined == dt # None /\ d # Absent
                dept_join ==
                    IF joined
                    THEN <<"LEFT JOIN", dt, "d ON", "e." \o c.deptfk, "=",
                           "d." \o d.id>>
                    ELSE <<>>
                select_cols ==
                    IF joined THEN <<"e.*", ",", "d." \o d.name, "AS department">>
                    ELSE <<"e.*", ",", "e." \o c.deptfk, "AS department">>
            IN  dedup_cte \o <<"SELECT">> \o select_cols \o <<"FROM", et, "e">>
                \o (IF dedup_cte # <<>>
                    THEN <<"JOIN latest l ON l.max_id =", "e." \o c.id>> ELSE <<>>)
                \o dept_join
        \* re.search(r"\bFROM\s+departments\b", sql)
        FromDepartments(sql) ==
            \E i \in 1..(Len(sql) - 1) :
                /\ sql[i] \in {"FROM", ") AS max_id FROM"}
                /\ sql[i + 1] = "departments"
        \* f"FROM {et} e LEFT JOIN {dt} d ON e.{col_deptfk} = d.{d['id']}"
        FromJoined(c) ==
            <<"FROM", m.emp_table, "e", "LEFT JOIN", m.dept_table, "d ON",
              "e." \o c.deptfk, "=", "d." \o m.dept.id>>
        \* lines 586-587: int() of the digits after the first "top" (5: none)
        TopN(qn0) ==
            LET i == FirstAt(qn0, <<{"top"}, Digits>>)
            IN  IF i = 0 THEN 5 ELSE Num(qn0[i + 1])
        c  == ColumnsUsed(m.emp)
        dt == m.dept_table
        d  == m.dept
        joined == dt # None /\ d # Absent
        base == BaseSql(c)
        dept_only == /\ Found(qn, <<{"department", "departments"}>>)
                     /\ ~Found(qn, <<{"employee", "employees"}>>)
        dname == IF d # Absent THEN d.name ELSE "dept_name"
        did   == IF d # Absent THEN d.id ELSE "dept_id"
        \* lines 545-558
        where1 == IF dept_only
                  THEN Replace(where, "D_NAME_COL", <<"d." \o dname>>)
                  ELSE where
        sql1 == IF dept_only
                THEN <<"SELECT", "d." \o did, "AS dept_id", ",",
                       "d." \o dname, "AS dept_name", ",", "d.manager_id",
                       "FROM", OrName(dt, "departments"), "d">>
                     \o (IF where1 # <<>> THEN WhereClause(where1) ELSE <<>>)
                     \o <<"ORDER BY", "d." \o did, "ASC", "LIMIT", ":limit",
                          "OFFSET", ":offset">>
                ELSE base
        params1 == IF dept_only
                   THEN Merge(params, [limit |-> Max(1, limit),
                                       offset |-> Max(0, offset)])
                   ELSE params
        \* lines 559-565
        append == where1 # <<>> /\ ~FromDepartments(sql1)
        where2 == IF ~append THEN where1
                  ELSE IF joined
                  THEN Replace(where1, "D_NAME_COL", <<"d." \o d.name>>)
                  ELSE Replace(where1, "D_NAME_COL", <<"e." \o c.deptfk>>)
        sql2 == IF append THEN sql1 \o WhereClause(where2) ELSE sql1
        filter == IF where2 # <<>> THEN WhereClause(where2) ELSE <<>>
    IN  IF intent = "avg_by_dept" /\ joined
        THEN [sql |-> <<"SELECT", "d." \o d.name, "AS department", ",",
                        "AVG(", "e." \o c.sal, ")", "AS avg_salary">>
                      \o FromJoined(c) \o filter
                      \o <<"GROUP BY", "d." \o d.name, "ORDER BY",
                           "avg_salary", "DESC">>,
              count_sql |-> NoSql, params |-> params1]
        ELSE IF intent = "count"
        THEN [sql |-> <<"SELECT COUNT(1) AS count FROM (">> \o base
                      \o filter \o <<") t">>,
              count_sql |-> NoSql, params |-> params1]
        ELSE IF intent = "top_paid_each_dept" /\ joined
        THEN [sql |-> <<"SELECT * FROM (", "SELECT", "e." \o c.id, "AS id",
                        ",", "e." \o c.name, "AS name", ",", "e." \o c.sal,
                        "AS salary", ",", "d." \o d.name, "AS department",
                        ",", "ROW_NUMBER() OVER (PARTITION BY",
                        "d." \o d.name, "ORDER BY", "e." \o c.sal, "DESC",
                        ") AS rn">>
                      \o FromJoined(c) \o filter
                      \o <<") z", "WHERE", "z.rn", "<=", ":topn", "ORDER BY",
                           "z.department", ",", "z.salary", "DESC">>,
              count_sql |-> NoSql,
              params |-> Merge(params1, [topn |-> TopN(qn)])]
        ELSE IF intent = "departments_list" /\ dt # None
        THEN [sql |-> sql2, count_sql |-> NoSql, params |-> params1]
        ELSE LET find_one == intent = "find_one"
             IN  [sql |-> sql2 \o <<"ORDER BY", "e." \o c.id, "ASC", "LIMIT",
                                   ":limit", "OFFSET", ":offset">>,
                  count_sql |-> <<"SELECT COUNT(1) AS total FROM (">>
                                \o sql2 \o <<") t">>,
                  params |->
                      Merge(params1,
                            [limit |-> Max(1, IF find_one THEN 1 ELSE limit),
                             offset |-> Max(0, IF find_one THEN 0
                                               ELSE offset)])]

\* _run_sql from line 393 to line 601, on the database of the engine: either
\* it returns an envelope (ret) or it has a statement to run (stmt). No
\* intent model is at hand (lines 396-404), and intent is never empty.
Prepared(query_text, db, limit, offset, intent) ==
    LET
        \* lines 478-601, with what ResolveMissing gave (rm)
        WithColumns(qn, rm, params, mapping) ==
            IF rm.ret # Absent THEN [ret |-> rm.ret]
            ELSE [ret |-> Absent,
                  stmt |-> Statement(qn, rm.where, params, mapping, limit, offset,
                                     intent)]
        \* lines 449-601, past the entity guard, with what ResolveColumns gave (rc)
        Guarded(qn, rc, params, mapping) ==
            IF rc.ret # Absent THEN [ret |-> rc.ret]
            ELSE WithColumns(qn, ResolveMissing(rc.where, ColumnsUsed(mapping.emp)),
                             params, mapping)
        \* lines 406-601, with the filters f of line 394 and the mapping of line 407
        WithFilters(qn, f, mapping) ==
            IF MissingEntity(qn, db.tables) # ""
            THEN [ret |-> NotRun("error",
                            "error: not present in your database (missing entity: '"
                            \o MissingEntity(qn, db.tables) \o "')")]
            ELSE Guarded(qn, ResolveColumns(f.where, ColumnsUsed(mapping.emp)),
                         f.params, mapping)
    IN  WithFilters(_normalize_tokens(query_text),
                    _infer_filters(_normalize_tokens(query_text)),
                    _detect_schema(db))

\* ------------------------------------------------- the database at work
\* What conn.execute makes of a statement: it raises when the statement is
\* not one of SQL or names what the database lacks, and gives rows otherwise.

\* the column names of the databases, and the references e.<c> and d.<c>
ColumnNames ==
    UNION {{Schemas[s][a] : a \in DOMAIN Schemas[s]} : s \in DOMAIN Schemas}
ERefs == {"e." \o c : c \in ColumnNames}
DRefs == {"d." \o c : c \in ColumnNames}
\* the words that start a clause, in the order SQL wants the clauses in
ClauseWords ==
    <<"SELECT", "FROM", "WHERE", "GROUP BY", "ORDER BY", "LIMIT", "OFFSET">>
\* the clauses of a SELECT, each the word that starts it and its tokens
Clauses(toks) ==
    LET IsClauseWord(tok) == \E i \in 1..Len(ClauseWords) : ClauseWords[i] = tok
        \* the tokens that open a bracket and those that close one
        Opening == {"(", "AVG(", "lower(", "strftime('%Y',", "WITH latest AS (SELECT",
                    "ROW_NUMBER() OVER (PARTITION BY"}
        Closing == {")", ") AS rn"}
        \* where the clauses of a SELECT start: the clause words outside brackets,
        \* from token i on, depth brackets being open there
        RECURSIVE MarksFrom(_, _, _)
        MarksFrom(toks0, i, depth) ==
            IF i > Len(toks0) THEN <<>>
            ELSE (IF IsClauseWord(toks0[i]) /\ depth = 0 THEN <<i>> ELSE <<>>)
                 \o MarksFrom(toks0, i + 1,
                              IF toks0[i] \in Opening THEN depth + 1
                              ELSE IF toks0[i] \in Closing THEN depth - 1
                              ELSE depth)
        mk == MarksFrom(toks, 1, 0)
        to(j) == IF j < Len(mk) THEN mk[j + 1] - 1 ELSE Len(toks)
    IN  [j \in 1..Len(mk) |->
           [word |-> toks[mk[j]], toks |-> SubSeq(toks, mk[j] + 1, to(j))]]

\* SELECT .. FROM .. and then each further clause once, in order
WellFormed(cl) ==
    LET RankOf(tok) == CHOOSE i \in 1..Len(ClauseWords) : ClauseWords[i] = tok
    IN  /\ Len(cl) >= 2
        /\ cl[1].word = "SELECT"
        /\ cl[2].word = "FROM"
        /\ \A j \in 1..(Len(cl) - 1) : RankOf(cl[j].word) < RankOf(cl[j + 1].word)

\* conn.execute(text(sql), params): error is what it raises ("": nothing),
\* rows are the rows it gives
Run(sql, params, db) ==
    LET Raise(e) == [error |-> e, rows |-> <<>>]
        Rows(r) == [error |-> "", rows |-> r]
        AliasOf(ref) == IF ref \in ERefs THEN "e" ELSE "d"
        ColOf(ref) == CHOOSE c \in ColumnNames : ref \in {"e." \o c, "d." \o c}
        \* A row under the aliases is [e |-> row, d |-> row]; the row of an alias
        \* that matched nothing has no column, every reference to it is NULL.
        IsNull(jr, ref) == ColOf(ref) \notin DOMAIN jr[AliasOf(ref)]
        Value(jr, ref) == jr[AliasOf(ref)][ColOf(ref)]
        \* the value bound to :name
        Bound(params0, tok) ==
            params0[CHOOSE k \in DOMAIN params0 : tok = ":" \o k]
        \* the pieces of toks between the tokens sep
        RECURSIVE SplitAt(_, _)
        SplitAt(toks, sep) ==
            IF ~Has(toks, sep) THEN <<toks>>
            ELSE LET i == CHOOSE k \in 1..Len(toks) :
                            toks[k] = sep /\ \A j \in 1..(k - 1) : toks[j] # sep
                 IN  <<SubSeq(toks, 1, i - 1)>>
                     \o SplitAt(SubSeq(toks, i + 1, Len(toks)), sep)
        WhereHolds(where, jr, p) ==
            LET
                \* value LIKE '%words%', both in lower case: one word is looked for as a
                \* part of a word, several words as words next to each other
                LikeMatch(value, pattern) ==
                    LET words == SubSeq(pattern, 2, Len(pattern) - 1)
                    IN  IF Len(words) = 1
                        THEN \E i \in 1..Len(value) : PartOf(words[1], value[i])
                        ELSE \E i \in 1..Len(value) :
                                /\ i + Len(words) - 1 <= Len(value)
                                /\ \A j \in 1..Len(words) : value[i + j - 1] = words[j]
                \* the year strftime('%Y', ..) takes from a date
                YearOf(date) == Num(date[1])
                \* one comparison of a WHERE clause on a row; NULL makes it fail
                AtomHolds(a) ==
                    CASE Len(a) = 1 -> FALSE                                        \* 1=0
                      [] Len(a) = 2 /\ a[2] = "IS NULL" -> IsNull(jr, a[1])
                      [] Len(a) = 2 /\ a[2] = "= ''" ->
                            ~IsNull(jr, a[1]) /\ Value(jr, a[1]) = <<>>
                      [] Len(a) = 3 /\ a[2] = "LIKE" ->
                            /\ a[1] # "0 /* no skills col */"
                            /\ ~IsNull(jr, a[1])
                            /\ LikeMatch(Value(jr, a[1]), Bound(p, a[3]))
                      [] Len(a) = 3 /\ a[2] = "=" ->
                            ~IsNull(jr, a[1]) /\ Value(jr, a[1]) = Bound(p, a[3])
                      [] Len(a) = 7 /\ a[1] = "lower(" ->
                            ~IsNull(jr, a[2]) /\ Value(jr, a[2]) = Bound(p, a[6])
                      [] Len(a) = 5 /\ a[4] = "=" /\ a[5] # "strftime('%Y', 'now')" ->
                            /\ ~IsNull(jr, a[2])
                            /\ YearOf(Value(jr, a[2])) = YearOf(Bound(p, a[5]))
                      [] Len(a) = 5 /\ a[4] = ">" ->
                            /\ ~IsNull(jr, a[2])
                            /\ YearOf(Value(jr, a[2])) > YearOf(Bound(p, a[5]))
                      [] Len(a) = 5 /\ a[4] = "<" ->
                            /\ ~IsNull(jr, a[2])
                            /\ YearOf(Value(jr, a[2])) < YearOf(Bound(p, a[5]))
                      [] Len(a) = 7 /\ a[4] = "BETWEEN" ->
                            /\ ~IsNull(jr, a[2])
                            /\ YearOf(Value(jr, a[2])) >= YearOf(Bound(p, a[5]))
                            /\ YearOf(Value(jr, a[2])) <= YearOf(Bound(p, a[7]))
                \* one term of the conjunction: a comparison, or comparisons in brackets
                \* with OR between them
                TermHolds(t) ==
                    IF t[1] = "("
                    THEN LET atoms == SplitAt(SubSeq(t, 2, Len(t) - 1), "OR")
                         IN  \E i \in 1..Len(atoms) : AtomHolds(atoms[i])
                    ELSE AtomHolds(t)
                terms == SplitAt(where, " AND ")
            IN  where = <<>> \/ \A i \in 1..Len(terms) : TermHolds(terms[i])
        HasClause(cl, word) == \E j \in 1..Len(cl) : cl[j].word = word
        \* the tokens of the clause that word starts (none: <<>>)
        ClauseOf(cl, word) ==
            IF ~HasClause(cl, word) THEN <<>>
            ELSE cl[CHOOSE j \in 1..Len(cl) : cl[j].word = word].toks
        \* the tables behind the aliases of a FROM clause: <table> <alias>, perhaps
        \* JOIN latest .., perhaps LEFT JOIN <table> d ON e.<fk> = d.<id>
        JoinAt(fc) ==
            IF Has(fc, "LEFT JOIN")
            THEN CHOOSE i \in 1..Len(fc) : fc[i] = "LEFT JOIN"
            ELSE 0
        \* why the database rejects a SELECT of clauses cl ("": it does not)
        Rejected(toks, cl) ==
            LET TableOf(fc, alias) ==
                    IF fc[2] = alias THEN fc[1]
                    ELSE IF alias = "d" /\ JoinAt(fc) # 0 THEN fc[JoinAt(fc) + 1]
                    ELSE ""
                fc   == ClauseOf(cl, "FROM")
                cte  == toks[1] = "WITH latest AS (SELECT"
                refs == {toks[i] : i \in 1..Len(toks)} \cap (ERefs \cup DRefs)
                tables == {fc[1]}
                          \cup (IF JoinAt(fc) # 0 THEN {fc[JoinAt(fc) + 1]} ELSE {})
                          \cup (IF cte THEN {toks[6]} ELSE {})
            IN  IF ~WellFormed(cl) THEN "syntax error"
                ELSE IF ~(tables \subseteq db.tables) THEN "no such table"
                ELSE IF \/ \E r \in refs :
                             \/ TableOf(fc, AliasOf(r)) = ""
                             \/ ColOf(r) \notin db.columns[TableOf(fc, AliasOf(r))]
                        \/ cte /\ ~({toks[2], toks[4]} \subseteq db.columns[toks[6]])
                THEN "no such column"
                ELSE ""
        \* the rows FROM and WHERE give, each under its aliases
        Matching(toks, cl) ==
            LET
                \* WITH latest AS (SELECT <email> .., MAX(<id>) .. GROUP BY <email>) joined
                \* on max_id: of the rows with one email, NULL too, the one of highest id
                Latest(rows, email, id) ==
                    LET Same(a, b) == IF email \in DOMAIN a
                                      THEN email \in DOMAIN b /\ a[email] = b[email]
                                      ELSE email \notin DOMAIN b
                    IN  SelectSeq(rows, LAMBDA r :
                            \A i \in 1..Len(rows) : Same(rows[i], r) => rows[i][id] <= r[id])
                \* LEFT JOIN: the row of drows whose id is the foreign key of row
                Joined(row, drows, fk, id) ==
                    LET S == {k \in 1..Len(drows) :
                                fk \in DOMAIN row /\ id \in DOMAIN drows[k]
                                /\ drows[k][id] = row[fk]}
                    IN  IF S = {} THEN <<>> ELSE drows[CHOOSE k \in S : TRUE]
                fc  == ClauseOf(cl, "FROM")
                where == ClauseOf(cl, "WHERE")
                j   == JoinAt(fc)
                src == IF Has(fc, "JOIN latest l ON l.max_id =")
                       THEN Latest(db.rows[fc[1]], toks[2], toks[4])
                       ELSE db.rows[fc[1]]
                Under(row) ==
                    IF fc[2] = "d" THEN [e |-> <<>>, d |-> row]
                    ELSE [e |-> row,
                          d |-> IF j = 0 THEN <<>>
                                ELSE Joined(row, db.rows[fc[j + 1]], ColOf(fc[j + 3]),
                                            ColOf(fc[j + 5]))]
            IN  SelectSeq([i \in 1..Len(src) |-> Under(src[i])],
                          LAMBDA jr : WhereHolds(where, jr, params))
        RECURSIVE SortKeyed(_, _)
        SortKeyed(s, order) ==
            LET
                \* ORDER BY: rows under sort keys. "ASC" is on <<number>>; "avg DESC" on
                \* <<sum, count>>, the average of no value (NULL) last; "department, salary
                \* DESC" on <<rank of the department, 0 for NULL, salary or <<>> for NULL>>.
                Precedes(a, b) ==
                    CASE order = "ASC" -> a[1] < b[1]
                      [] order = "avg DESC" ->
                            a[2] > 0 /\ (b[2] = 0 \/ a[1] * b[2] > b[1] * a[2])
                      [] order = "department, salary DESC" ->
                            \/ a[1] < b[1]
                            \/ /\ a[1] = b[1]
                               /\ Len(a) = 2
                               /\ (Len(b) = 1 \/ a[2] > b[2])
                RECURSIVE InsertKeyed(_, _, _)
                InsertKeyed(sorted, x, order0) ==
                    IF sorted = <<>> THEN <<x>>
                    ELSE IF Precedes(x.key, Head(sorted).key) THEN <<x>> \o sorted
                    ELSE <<Head(sorted)>> \o InsertKeyed(Tail(sorted), x, order0)
            IN  IF s = <<>> THEN <<>>
                ELSE InsertKeyed(SortKeyed(SubSeq(s, 1, Len(s) - 1), order), s[Len(s)],
                                 order)
        \* the row a select list of e.*, <ref> and <ref> AS <name> makes of a row
        \* under its aliases
        Project(list, jr) ==
            LET
                \* the column an "AS <name>" names
                AsName(tok) ==
                    CASE tok = "AS department" -> "department"
                      [] tok = "AS dept_id"    -> "dept_id"
                      [] tok = "AS dept_name"  -> "dept_name"
                      [] tok = "AS id"         -> "id"
                      [] tok = "AS name"       -> "name"
                      [] tok = "AS salary"     -> "salary"
                items == SplitAt(list, ",")
                NameOf(k) == IF Len(items[k]) = 1 THEN ColOf(items[k][1])
                             ELSE AsName(items[k][2])
                plain == {k \in 1..Len(items) :
                            items[k][1] # "e.*" /\ ~IsNull(jr, items[k][1])}
                star  == IF \E k \in 1..Len(items) : items[k][1] = "e.*"
                         THEN jr.e ELSE <<>>
            IN  Merge(star,
                      [n \in {NameOf(k) : k \in plain} |->
                         Value(jr, items[CHOOSE k \in plain : NameOf(k) = n][1])])
        \* the rows of s, which holds them under their sort keys
        Unkeyed(s) == [i \in 1..Len(s) |-> s[i].row]
        \* a listing: WHERE, ORDER BY <ref> ASC, LIMIT :limit OFFSET :offset
        Listed(toks, cl) ==
            LET
                \* ORDER BY <ref> ASC, if there is one
                Ordered(found, by) ==
                    IF by = <<>> THEN found
                    ELSE Unkeyed(SortKeyed([i \in 1..Len(found) |->
                                              [key |-> <<Value(found[i], by[1])>>,
                                               row |-> found[i]]],
                                           "ASC"))
                \* LIMIT :limit OFFSET :offset, if there is one
                Paged(sorted) ==
                    IF HasClause(cl, "LIMIT")
                    THEN PySlice(sorted, Bound(params, ClauseOf(cl, "OFFSET")[1]),
                                 Bound(params, ClauseOf(cl, "OFFSET")[1])
                                 + Bound(params, ClauseOf(cl, "LIMIT")[1]))
                    ELSE sorted
                Projected(page, list) == [i \in 1..Len(page) |-> Project(list, page[i])]
            IN  Projected(Paged(Ordered(Matching(toks, cl),
                                        ClauseOf(cl, "ORDER BY"))),
                          ClauseOf(cl, "SELECT"))
        \* AVG(<salary>) .. GROUP BY <name> ORDER BY avg_salary DESC
        Averaged(toks, cl) ==
            LET
                \* SUM(<ref>) over the rows of found at the places S
                RECURSIVE Total(_, _, _)
                Total(found, S, ref) ==
                    IF S = {} THEN 0
                    ELSE LET i == CHOOSE x \in S : TRUE
                         IN  Value(found[i], ref) + Total(found, S \ {i}, ref)
                \* the groups of GROUP BY <name>, each as the place of its first row
                Groups(found, name) ==
                    SelectSeq([i \in 1..Len(found) |-> i], LAMBDA i :
                        \A k \in 1..(i - 1) :
                            \/ IsNull(found[k], name) # IsNull(found[i], name)
                            \/ /\ ~IsNull(found[i], name)
                               /\ Value(found[k], name) # Value(found[i], name))
                \* the places of the rows of the group of row g that have a <ref>
                Paid(found, name, g, ref) ==
                    {i \in 1..Len(found) :
                        /\ ~IsNull(found[i], ref)
                        /\ IsNull(found[i], name) = IsNull(found[g], name)
                        /\ IsNull(found[g], name) \/ Value(found[i], name) = Value(found[g], name)}
                \* the row of a group: its name, and its average as <<sum, count>>
                Average(x) ==
                    Merge(IF x.row = <<>> THEN <<>> ELSE [department |-> x.row[1]],
                          IF x.key[2] = 0 THEN <<>> ELSE [avg_salary |-> x.key])
                Averages(sorted) == [i \in 1..Len(sorted) |-> Average(sorted[i])]
                Grouped(found, first, name, sal) ==
                    Averages(SortKeyed(
                        [i \in 1..Len(first) |->
                           [key |-> <<Total(found, Paid(found, name, first[i], sal), sal),
                                      Cardinality(Paid(found, name, first[i], sal))>>,
                            row |-> IF IsNull(found[first[i]], name) THEN <<>>
                                    ELSE <<Value(found[first[i]], name)>>]],
                        "avg DESC"))
                WithGroups(found, name, sal) == Grouped(found, Groups(found, name), name, sal)
            IN  WithGroups(Matching(toks, cl), ClauseOf(cl, "GROUP BY")[1],
                           ClauseOf(cl, "SELECT")[5])
        \* SELECT * FROM ( .. ROW_NUMBER() OVER (PARTITION BY <name> ORDER BY
        \* <salary> DESC) AS rn .. ) z WHERE z.rn <= :topn ORDER BY z.department,
        \* z.salary DESC, on the inner SELECT
        Ranked(part, cl) ==
            LET
                \* the order texts sort in, for the department names
                TextRank(text) ==
                    CASE text = <<"engineering">> -> 1
                      [] text = <<"marketing">>   -> 2
                \* row i comes before row k in its partition: PARTITION BY <name> ORDER BY
                \* <sal> DESC; equal salaries rank in scan order
                Ahead(found, name, sal, i, k) ==
                    /\ IsNull(found[i], name) = IsNull(found[k], name)
                    /\ IsNull(found[i], name) \/ Value(found[i], name) = Value(found[k], name)
                    /\ ~IsNull(found[i], sal)
                    /\ \/ IsNull(found[k], sal)
                       \/ Value(found[i], sal) > Value(found[k], sal)
                       \/ Value(found[i], sal) = Value(found[k], sal) /\ i < k
                \* ROW_NUMBER() of row k
                RowNumber(found, name, sal, k) ==
                    1 + Cardinality({i \in 1..Len(found) : Ahead(found, name, sal, i, k)})
                \* ORDER BY z.department, z.salary DESC
                DepartmentSalary(jr, name, sal) ==
                    <<IF IsNull(jr, name) THEN 0 ELSE TextRank(Value(jr, name))>>
                    \o (IF IsNull(jr, sal) THEN <<>> ELSE <<Value(jr, sal)>>)
                \* the rows at the places kept; id, name, salary, department are the eleven
                \* tokens before rn
                Numbered(found, kept, select, name, sal) ==
                    Unkeyed(SortKeyed(
                        [i \in 1..Len(kept) |->
                           [key |-> DepartmentSalary(found[kept[i]], name, sal),
                            row |-> Merge(Project(SubSeq(select, 1, 11), found[kept[i]]),
                                          [rn |-> RowNumber(found, name, sal, kept[i])])]],
                        "department, salary DESC"))
                TopRows(found, select, name, sal, topn) ==
                    Numbered(found,
                             SelectSeq([k \in 1..Len(found) |-> k],
                                       LAMBDA k : RowNumber(found, name, sal, k) <= topn),
                             select, name, sal)
            IN  TopRows(Matching(part, cl), ClauseOf(cl, "SELECT"),
                        SplitAt(ClauseOf(cl, "SELECT"), ",")[5][2],
                        SplitAt(ClauseOf(cl, "SELECT"), ",")[5][4], params.topn)
        
        \* what follows the inner SELECT of the statement of line 588
        TopTail ==
            <<") z", "WHERE", "z.rn", "<=", ":topn", "ORDER BY", "z.department", ",",
              "z.salary", "DESC">>
        \* one SELECT with its clauses cl; top: it is the inner SELECT of line 588
        Select(toks, cl, top) ==
            IF Rejected(toks, cl) # "" THEN Raise(Rejected(toks, cl))
            ELSE IF top THEN Rows(Ranked(toks, cl))
            ELSE IF HasClause(cl, "GROUP BY") THEN Rows(Averaged(toks, cl))
            ELSE Rows(Listed(toks, cl))
        \* SELECT COUNT(1) AS total|count FROM ( <inner> ) t
        Count(inner) ==
            IF sql[Len(sql)] # ") t" THEN Raise("syntax error")
            ELSE IF inner.error # "" THEN inner
            ELSE IF sql[1] = "SELECT COUNT(1) AS total FROM ("
            THEN Rows(<<[total |-> Len(inner.rows)]>>)
            ELSE Rows(<<[count |-> Len(inner.rows)]>>)
    IN  IF sql[1] \in {"SELECT COUNT(1) AS total FROM (",
                       "SELECT COUNT(1) AS count FROM ("}
        THEN Count(Select(SubSeq(sql, 2, Len(sql) - 1),
                               Clauses(SubSeq(sql, 2, Len(sql) - 1)), FALSE))
        ELSE IF sql[1] = "SELECT * FROM ("
        THEN IF \/ Len(sql) - Len(TopTail) < 2
                \/ SubSeq(sql, Len(sql) - Len(TopTail) + 1, Len(sql)) # TopTail
             THEN Raise("syntax error")
             ELSE Select(SubSeq(sql, 2, Len(sql) - Len(TopTail)),
                         Clauses(SubSeq(sql, 2, Len(sql) - Len(TopTail))), TRUE)
        ELSE Select(sql, Clauses(sql), FALSE)

\* lines 606-619 on the database of the engine: the count if there is one
\* and the statement
Connected(stmt, db) ==
    LET ParamOr(params, name, default) ==
            IF name \in DOMAIN params THEN params[name] ELSE default
        \* lines 610-619 with what the count gave (counted) and what the statement
        \* gave (ran): what is raised ("": nothing) and the envelope returned
        Fetched(counted, ran) ==
            IF counted.error # "" THEN [raised |-> counted.error]
            ELSE IF ran.error # "" THEN [raised |-> ran.error]
            ELSE [raised |-> "",
                  ret |-> [type |-> "sql", sql |-> stmt.sql,
                           params |-> stmt.params, rows |-> ran.rows,
                           pagination |->
                               IF stmt.count_sql # NoSql
                               THEN [limit |-> ParamOr(stmt.params, "limit", 0),
                                     offset |-> ParamOr(stmt.params, "offset", 0),
                                     total |-> counted.rows[1].total]
                               ELSE Absent]]
    IN  Fetched(IF stmt.count_sql # NoSql
                THEN Run(stmt.count_sql, stmt.params, db)
                ELSE [error |-> "", rows |-> <<>>],
                Run(stmt.sql, stmt.params, db))

\* --------------------------------------------------------------- SQL path
\* connection_string or the local example database
ConnStrOf(connection_string) ==
    IF connection_string = None THEN DefaultConnStr ELSE connection_string

\* except Exception as e: {"type": "sql", "error": str(e), "rows": []}
SqlErrorEnvelope(message) ==
    [type |-> "sql", error |-> message, rows |-> <<>>]

\* _run_sql past _get_engine, with line 683: what the SQL path of
\* process_query leaves in sql_res for the request r
SqlResult(r) ==
    LET db   == Database(ConnStrOf(r.cs))
        prep == Prepared(r.q, db, r.limit, r.offset,
                         _infer_intent(_normalize_tokens(r.q)))
        done == Connected(prep.stmt, db)
    IN  IF prep.ret # Absent THEN prep.ret
        ELSE IF done.raised # "" THEN SqlErrorEnvelope(done.raised)
        ELSE done.ret

\* ---------------------------------------------------------- document path
\* storage/ingestion.db: no file; a file the search cannot read (line 626 or
\* 631 raises); the tables and no chunk; the chunks above
IngestStates == {"absent", "unreadable", "empty", "present"}

IngestStore(ingest) ==
    LET
        \* the chunks of the ingestion store: text, vector, recorded dim
        IngestChunks ==
            << [text |-> "c1", vec |-> <<1, 0>>, dim |-> 2],
               [text |-> "c2", vec |-> <<0, 1>>, dim |-> 2],
               [text |-> "c3", vec |-> <<1>>, dim |-> 2] >>
    IN  IF ingest = "present" THEN IngestChunks ELSE <<>>

\* _search_documents raises
SearchRaises(ingest) == ingest = "unreadable"

\* The stores of a run of SpecSearch: up to MaxChunks chunks, each with a
\* vector of the model's two dimensions or a shorter one, and a recorded dim
\* that is the vector's length or is not; the text tells the place in the
\* store. QueryVectors are the vectors the queries of such a run encode to.
Stores ==
    LET Kinds == {[vec |-> <<1, 0>>, dim |-> 2], [vec |-> <<0, 1>>, dim |-> 2],
                  [vec |-> <<1>>, dim |-> 2], [vec |-> <<1, 0>>, dim |-> 1]}
        StoreOf(ks) == [i \in DOMAIN ks |->
                          [text |-> "c" \o ToString(i), vec |-> ks[i].vec,
                           dim |-> ks[i].dim]]
    IN  UNION {{StoreOf(ks) : ks \in [1..n -> Kinds]} : n \in 0..MaxChunks}
\* model.encode([query_text])[0]
Embed(q) == IF HasWord(q, {"resume"}) THEN <<1, 2>> ELSE <<2, 1>>

\* the loop of lines 636-641: score the chunks whose length matches dim
RECURSIVE ScoreChunks(_, _)
ScoreChunks(rows, q_vec) ==
    LET RECURSIVE Dot(_, _)
        Dot(a, b) == IF a = <<>> \/ b = <<>> THEN 0
                     ELSE Head(a) * Head(b) + Dot(Tail(a), Tail(b))
    IN  IF rows = <<>> THEN <<>>
        ELSE LET c == Head(rows)
                 rest == ScoreChunks(Tail(rows), q_vec)
             IN  IF Len(c.vec) # c.dim THEN rest
                 ELSE <<[text |-> c.text, score |-> Dot(c.vec, q_vec)]>> \o rest

\* a sort that puts a chunk ahead of the chunks of the same score
RECURSIVE InsertDesc_AheadOfEquals(_, _)
InsertDesc_AheadOfEquals(sorted, x) ==
    IF sorted = <<>> THEN <<x>>
    ELSE IF Head(sorted).score > x.score
         THEN <<Head(sorted)>> \o InsertDesc_AheadOfEquals(Tail(sorted), x)
         ELSE <<x>> \o sorted

\* list.sort(key=score, reverse=True): stable, highest score first
RECURSIVE InsertDesc(_, _)
InsertDesc(sorted, x) ==
    IF sorted = <<>> THEN <<x>>
    ELSE IF Head(sorted).score >= x.score
         THEN <<Head(sorted)>> \o InsertDesc(Tail(sorted), x)
         ELSE <<x>> \o sorted

RECURSIVE SortDesc(_)
SortDesc(s) ==
    IF s = <<>> THEN <<>>
    ELSE InsertDesc(SortDesc(SubSeq(s, 1, Len(s) - 1)), s[Len(s)])

\* lines 623-648 when nothing raises: exists is os.path.exists(INGEST_DB),
\* rows what the SELECT of line 631 fetched, q_vec the vector of the query
_search_documents(exists, rows, q_vec, top_k, offset) ==
    LET results == SortDesc(ScoreChunks(rows, q_vec))
        start   == Max(0, offset)
        end     == start + Max(1, top_k)
    IN  IF ~exists
        THEN [type |-> "document", results |-> <<>>]
        ELSE [type |-> "document",
              results |-> PySlice(results, start, end),
              pagination |-> [limit |-> Max(1, top_k), offset |-> start,
                              total |-> Len(results)]]

\* except Exception as e: {"type": "document", "error": str(e), "results": []}
DocErrorEnvelope ==
    [type |-> "document", error |-> "no such table: chunks", results |-> <<>>]

\* ----------------------------------------------------------------- hybrid
\* _merge_hybrid if it returned the failed part alone
_merge_hybrid_ErrorWins(sql_res, doc_res) ==
    IF "error" \in DOMAIN sql_res THEN sql_res
    ELSE IF "error" \in DOMAIN doc_res THEN doc_res
    ELSE [type |-> "hybrid", sql |-> sql_res, documents |-> doc_res]

_merge_hybrid(sql_res, doc_res) ==
    [type |-> "hybrid", sql |-> sql_res, documents |-> doc_res]

\* ================================================================== state
VARIABLES
    cache,         \* _cache._cache: the OrderedDict, least recently used first
    history,       \* _history
    metrics,       \* _metrics
    engine_cache,  \* _engine_cache: connection string -> engine (0: no entry)
    pc,            \* per thread: the statement it is at
    loc,           \* per thread: the locals of its process_query call
    threads,       \* the threads that call the engine
    budget,        \* process_query calls still to be started
    reply,         \* what the last read-only call returned
    \* --- history variables, read by the properties only
    created,       \* connection string -> number of create_engine calls
    calls,         \* the last two completed process_query calls
    origin,        \* cache key -> the request whose result the entry holds
    lat_log,       \* the latencies recorded since the last reset_metrics
    completed,     \* process_query calls completed since the last reset
    was_reset,     \* reset_metrics has run
    recency,       \* cache keys by their last access, oldest first
    lru_last,      \* the last LRUCache call: op, key, result, keys before
    env,           \* what the run is given: the ingestion store, the inputs
    \* --- document_processor.py
    jobs,          \* the jobs table of storage/ingestion.db: id -> row
    job_run        \* start_ingestion_job: where it is, its files, processed,
                   \* and (history) the processed_files it has written

vars == <<cache, history, metrics, engine_cache, pc, loc, threads, budget,
          reply, created, calls, origin, lat_log, completed, was_reset,
          recency, lru_last, env, jobs, job_run>>

\* all but the cache and the history variables of its direct calls
engine_vars == <<history, metrics, engine_cache, pc, loc, threads, budget,
                 reply, created, calls, origin, lat_log, completed,
                 was_reset, env, jobs, job_run>>

AllThreads == {1, 2}
EngineStrings == {ConnStrOf(cs) : cs \in WideConnStrings}

NoLocals ==
    [req |-> Absent, site |-> "", tmp |-> 0, cached |-> Absent,
     qtype |-> "", eng |-> 0, raised |-> {}, stmt |-> Absent,
     sql_res |-> Absent,
     doc_res |-> Absent, final |-> Absent, elapsed |-> 0, ran |-> {},
     src |-> {}, g0 |-> Absent]

Gauges == [active_queries |-> metrics.active_queries,
           active_connections |-> metrics.active_connections]

InitEngine(ts, n) ==
    LET NoLruCall == [op |-> "", key |-> Absent, ret |-> Absent, before |-> {},
                      oldest |-> {}]
    IN  /\ cache = <<>>
        /\ history = <<>>
        /\ metrics = [total_queries |-> 0, cache_hits |-> 0, cache_misses |-> 0,
                      exec_times |-> <<>>, active_queries |-> 0,
                      active_connections |-> 0]
        /\ engine_cache = [cs \in EngineStrings |-> 0]
        /\ pc = [t \in AllThreads |-> "idle"]
        /\ loc = [t \in AllThreads |-> NoLocals]
        /\ threads = ts
        /\ budget = n
        /\ reply = Absent
        /\ created = [cs \in EngineStrings |-> 0]
        /\ calls = <<>>
        /\ origin = <<>>
        /\ lat_log = <<>>
        /\ completed = 0
        /\ was_reset = FALSE
        /\ recency = <<>>
        /\ lru_last = NoLruCall
        /\ jobs = <<>>
        /\ job_run = [pc |-> "none"]

\* the runs on the requests of Requests, with the document store in place
InitWith(ts, n) ==
    /\ InitEngine(ts, n)
    /\ env = [wide |-> FALSE, ingest |-> "present"]

Idle == \A t \in threads : pc[t] = "idle"

\* Operations run one at a time unless several threads call the engine.
Concurrent == Cardinality(threads) > 1
MayStart == Concurrent \/ Idle

WideRequestsFor ==
    LET
        \* the requests made under each state of the document store
        WideCase(r, ingest) ==
            ingest = "present" \/ _classify(r.q) \in {"document", "hybrid"}
    IN  [ingest \in IngestStates |-> {r \in WideRequests : WideCase(r, ingest)}]

\* The requests of a run in which the files change between the calls: the
\* listing, the document query, the hybrid query on the empty database, a
\* question about a table no database has, and the lookup by e-mail on the
\* database without the e-mail column.
ChangeRequests ==
    {r \in [q : Queries \cup {<<"list", "vendors">>,
                              <<"email:", "bob@company.com">>},
            cs : {None, EmptyConnStr, "sqlite:///simplified_min.db"},
            limit : {MaxLimit}, offset : {0}, doc_limit : {1},
            doc_offset : {0}] :
        /\ (r.cs = EmptyConnStr <=> r.q = QHybrid)
        /\ (r.cs = "sqlite:///simplified_min.db"
                <=> r.q = <<"email:", "bob@company.com">>)}

RequestsNow ==
    IF "db" \in DOMAIN env THEN ChangeRequests
    ELSE IF env.wide THEN WideRequestsFor[env.ingest]
    ELSE IF Concurrent THEN ConcRequests ELSE Requests
LatenciesNow ==
    LET
        \* time.time() - t0, in ticks
        Latencies == {1, 2}
        ConcLatencies == {1}
    IN  IF Concurrent \/ env.wide THEN ConcLatencies ELSE Latencies

\* ================================================================ metrics
\* _record_time with line 70 as del exec_times[500:]: it keeps the oldest
_record_time_KeepOldest(times, elapsed) ==
    LET appended == Append(times, elapsed)
    IN  IF Len(appended) > ExecTimesCap
        THEN SubSeq(appended, 1, ExecTimesCap)
        ELSE appended

\* _record_time: what it leaves in _metrics["exec_times"]
_record_time(times, elapsed) ==
    LET appended == Append(times, elapsed)
    IN  IF Len(appended) > ExecTimesCap
        THEN DelAllButLast(appended, ExecTimesCap)
        ELSE appended

\* The _inc calls of a process_query call, by the place they are made at:
\* the counter each one changes and by how much.
IncCounter(site) ==
    CASE site = "total"      -> "total_queries"
      [] site = "hits"       -> "cache_hits"
      [] site = "misses"     -> "cache_misses"
      [] site = "aq_sql_in"  -> "active_queries"
      [] site = "aq_sql_out" -> "active_queries"
      [] site = "aq_doc_in"  -> "active_queries"
      [] site = "aq_doc_out" -> "active_queries"
      [] site = "conn_in"    -> "active_connections"
      [] site = "conn_out"   -> "active_connections"

\* line 612 as _inc("active_connections", 1): the connection scope counts up
\* on its way out
IncDelta_ConnUp(site) ==
    IF site \in {"aq_sql_out", "aq_doc_out"} THEN -1 ELSE 1

IncDelta(site) ==
    IF site \in {"aq_sql_out", "aq_doc_out", "conn_out"} THEN -1 ELSE 1

\* _inc, first half: _metrics.get(name, 0)
IncRead(t) ==
    /\ t \in threads
    /\ pc[t] = "inc_read"
    /\ loc' = [loc EXCEPT ![t].tmp = metrics[IncCounter(loc[t].site)]]
    /\ pc' = [pc EXCEPT ![t] = "inc_write"]
    /\ UNCHANGED <<cache, history, metrics, engine_cache, threads, budget,
                   reply, created, calls, origin, lat_log, completed,
                   was_reset, recency, lru_last, env,
                   jobs, job_run>>

\* _inc, second half: _metrics[name] = <what was read> + delta
IncWrite(t) ==
    LET
        \* The statement that follows an _inc call, as <<pc, site>>.
        AfterInc(l) ==
            CASE l.site = "total"      -> <<"cache_get", "">>
              [] l.site = "hits"       -> <<"hit_record", "">>
              [] l.site = "misses"     -> <<"miss_record", "">>
              [] l.site = "aq_sql_in"  -> <<"get_engine", "">>
              [] l.site = "conn_in"    -> <<"execute", "">>
                 \* finally of the connection scope, then finally of _with_active_query
              [] l.site = "conn_out"   -> <<"inc_read", "aq_sql_out">>
              [] l.site = "aq_sql_out" -> IF l.qtype = "hybrid"
                                          THEN <<"inc_read", "aq_doc_in">>
                                          ELSE <<"finish", "">>
              [] l.site = "aq_doc_in"  -> <<"search", "">>
              [] l.site = "aq_doc_out" -> <<"finish", "">>
    IN  /\ t \in threads
        /\ pc[t] = "inc_write"
        /\ metrics' = [metrics EXCEPT ![IncCounter(loc[t].site)] =
                           loc[t].tmp + IncDelta(loc[t].site)]
        /\ pc' = [pc EXCEPT ![t] = AfterInc(loc[t])[1]]
        /\ loc' = [loc EXCEPT ![t].site = AfterInc(loc[t])[2]]
        /\ UNCHANGED <<cache, history, engine_cache, threads, budget, reply,
                       created, calls, origin, lat_log, completed, was_reset,
                       recency, lru_last, env, jobs, job_run>>

\* lines 661-663: the call starts; _inc("total_queries", 1) comes first
Call(t, r) ==
    LET
        \* ========================================================== process_query
        \* the requests whose results the cache holds for the query text, the
        \* connection string and the limit of r
        CachedFor(r0) ==
            {origin[k] : k \in {x \in CacheKeys(cache) :
                                  /\ origin[x].q = r0.q
                                  /\ origin[x].cs = r0.cs
                                  /\ origin[x].limit = r0.limit}}
    IN  /\ t \in threads
        /\ pc[t] = "idle"
        /\ MayStart
        /\ budget > 0
        /\ budget' = budget - 1
        /\ loc' = [loc EXCEPT ![t] =
                     [NoLocals EXCEPT !.req = r, !.site = "total",
                                      !.src = CachedFor(r),
                                      !.g0 = Gauges]]
        /\ pc' = [pc EXCEPT ![t] = "inc_read"]
        /\ reply' = Absent
        /\ UNCHANGED <<cache, history, metrics, engine_cache, threads, created,
                       calls, origin, lat_log, completed, was_reset, recency,
                       lru_last, env,
                       jobs, job_run>>

\* lines 664-666 and 674-678: cached = _cache.get(cache_key); on a hit the
\* elapsed time is taken, on a miss the query is classified
CacheGet(t) ==
    /\ t \in threads
    /\ pc[t] = "cache_get"
    /\ LET key    == CacheKey(loc[t].req)
           cached == LRUGetValue(cache, key)
           qtype  == _classify(loc[t].req.q)
       IN  /\ cache' = LRUGetCache(cache, key)
           /\ IF cached # Absent
              THEN \E elapsed \in LatenciesNow :
                     /\ loc' = [loc EXCEPT ![t].cached = cached,
                                           ![t].elapsed = elapsed,
                                           ![t].site = "hits"]
                     /\ pc' = [pc EXCEPT ![t] = "inc_read"]
              ELSE /\ loc' = [loc EXCEPT
                                ![t].qtype = qtype,
                                ![t].site = IF qtype \in {"sql", "hybrid"}
                                            THEN "aq_sql_in" ELSE "aq_doc_in"]
                   /\ pc' = [pc EXCEPT ![t] = "inc_read"]
    /\ UNCHANGED <<history, metrics, engine_cache, threads, budget, reply,
                   created, calls, origin, lat_log, completed, was_reset,
                   recency, lru_last, env, jobs, job_run>>

\* the two most recent completed calls
Returned(t, result) ==
    LET rec == [req |-> loc[t].req, result |-> result, ran |-> loc[t].ran,
                raised |-> loc[t].raised, src |-> loc[t].src,
                g0 |-> loc[t].g0, g1 |-> Gauges]
    IN  PySliceFrom(Append(calls, rec), -2)

\* line 670
HitRecord(t) ==
    /\ t \in threads
    /\ pc[t] = "hit_record"
    /\ metrics' = [metrics EXCEPT
                     !.exec_times = _record_time(@, loc[t].elapsed)]
    /\ lat_log' = Append(lat_log, loc[t].elapsed)
    /\ pc' = [pc EXCEPT ![t] = "hit_history"]
    /\ UNCHANGED <<cache, history, engine_cache, loc, threads, budget, reply,
                   created, calls, origin, completed, was_reset, recency,
                   lru_last, env,
                   jobs, job_run>>

\* lines 668, 671-672: the history entry of a hit, and the return
HitHistory(t) ==
    /\ t \in threads
    /\ pc[t] = "hit_history"
    /\ history' = Append(history,
                         [q |-> loc[t].req.q, time |-> loc[t].elapsed,
                          type |-> loc[t].cached.type, cache |-> "hit"])
    /\ calls' = Returned(t, DictWith(loc[t].cached, "metrics",
                            [elapsed_sec |-> loc[t].elapsed, cache |-> "hit"]))
    /\ completed' = completed + 1
    /\ pc' = [pc EXCEPT ![t] = "idle"]
    /\ loc' = [loc EXCEPT ![t] = NoLocals]
    /\ UNCHANGED <<cache, metrics, engine_cache, threads, budget, reply,
                   created, origin, lat_log, was_reset, recency, lru_last, env,
                   jobs, job_run>>

\* The database the engine of a connection string reaches now: in the runs
\* where the files change, env.db tells which database is behind each string.
DatabaseAt(conn_str) ==
    Database(IF "db" \in DOMAIN env THEN env.db[conn_str] ELSE conn_str)

ToConnection(l, eng) ==
    LET
        \* _run_sql from line 393 to the connection scope of line 603, with the
        \* engine at hand: it returns an envelope, or it has a statement to run
        Entered(prep) ==
            IF prep.ret # Absent
            THEN [l EXCEPT !.eng = eng, !.sql_res = prep.ret, !.site = "aq_sql_out"]
            ELSE [l EXCEPT !.eng = eng, !.stmt = prep.stmt, !.site = "conn_in"]
    IN  Entered(Prepared(l.req.q, DatabaseAt(ConnStrOf(l.req.cs)), l.req.limit,
                         l.req.offset, _infer_intent(_normalize_tokens(l.req.q))))

\* _get_engine, lines 88-90: look the connection string up
GetEngine(t) ==
    /\ t \in threads
    /\ pc[t] = "get_engine"
    /\ LET eng == engine_cache[ConnStrOf(loc[t].req.cs)]
           l   == [loc[t] EXCEPT !.ran = @ \cup {"sql"}]
       IN  IF eng # 0
           THEN /\ loc' = [loc EXCEPT ![t] = ToConnection(l, eng)]
                /\ pc' = [pc EXCEPT ![t] = "inc_read"]
           ELSE /\ pc' = [pc EXCEPT ![t] = "create_engine"]
                /\ loc' = [loc EXCEPT ![t] = l]
    /\ UNCHANGED <<cache, history, metrics, engine_cache, threads, budget,
                   reply, created, calls, origin, lat_log, completed,
                   was_reset, recency, lru_last, env,
                   jobs, job_run>>

\* _get_engine, lines 92-104: create_engine and the registry entry; then
\* _run_sql up to the connection scope of line 603
CreateEngine(t) ==
    LET EnginesCreated ==
            LET
                \* the engines made so far
                RECURSIVE EnginesOf(_)
                EnginesOf(S) ==
                    IF S = {} THEN 0
                    ELSE LET cs == CHOOSE x \in S : TRUE
                         IN  created[cs] + EnginesOf(S \ {cs})
            IN  EnginesOf(EngineStrings)
    IN  /\ t \in threads
        /\ pc[t] = "create_engine"
        /\ LET conn_str == ConnStrOf(loc[t].req.cs)
               eng      == EnginesCreated + 1
           IN  /\ created' = [created EXCEPT ![conn_str] = @ + 1]
               /\ engine_cache' = [engine_cache EXCEPT ![conn_str] = eng]
               /\ loc' = [loc EXCEPT ![t] = ToConnection(loc[t], eng)]
        /\ pc' = [pc EXCEPT ![t] = "inc_read"]
        /\ UNCHANGED <<cache, history, metrics, threads, budget, reply, calls,
                       origin, lat_log, completed, was_reset, recency, lru_last,
                       env, jobs, job_run>>

\* lines 605-610: the statements run on the connection
Execute(t) ==
    LET
        \* leaving the connection scope with what Connected gave: to the handler of
        \* line 682 if a statement raised, else with the envelope of line 613
        Left(l, done) ==
            [l EXCEPT !.raised = IF done.raised # "" THEN @ \cup {"sql"} ELSE @,
                      !.sql_res = IF done.raised # ""
                                  THEN SqlErrorEnvelope(done.raised)
                                  ELSE done.ret,
                      !.site = "conn_out"]
    IN  /\ t \in threads
        /\ pc[t] = "execute"
        /\ loc' = [loc EXCEPT
                     ![t] = Left(loc[t],
                                 Connected(loc[t].stmt,
                                           DatabaseAt(ConnStrOf(loc[t].req.cs))))]
        /\ pc' = [pc EXCEPT ![t] = "inc_read"]
        /\ UNCHANGED <<cache, history, metrics, engine_cache, threads, budget,
                       reply, created, calls, origin, lat_log, completed,
                       was_reset, recency, lru_last, env,
                   jobs, job_run>>

\* line 686: the document search
Search(t) ==
    /\ t \in threads
    /\ pc[t] = "search"
    /\ LET r == loc[t].req
       IN  loc' = [loc EXCEPT
                     ![t].ran = @ \cup {"document"},
                     ![t].raised = IF SearchRaises(env.ingest)
                                   THEN @ \cup {"document"} ELSE @,
                     \* line 688 when it raised
                     ![t].doc_res =
                         IF SearchRaises(env.ingest) THEN DocErrorEnvelope
                         ELSE _search_documents(env.ingest # "absent",
                                                IngestStore(env.ingest),
                                                Embed(r.q), r.doc_limit,
                                                r.doc_offset),
                     ![t].site = "aq_doc_out"]
    /\ pc' = [pc EXCEPT ![t] = "inc_read"]
    /\ UNCHANGED <<cache, history, metrics, engine_cache, threads, budget,
                   reply, created, calls, origin, lat_log, completed,
                   was_reset, recency, lru_last, env,
                   jobs, job_run>>

\* lines 690-695
FinalOf(qtype, sql_res, doc_res) ==
    LET
        \* x or default, for a result x
        OrElse(x, default) == IF x = Absent THEN default ELSE x
        sql_part == OrElse(sql_res, [type |-> "sql", rows |-> <<>>])
        doc_part == OrElse(doc_res, [type |-> "document", results |-> <<>>])
    IN  IF qtype = "sql" THEN sql_part
        ELSE IF qtype = "document" THEN doc_part
        ELSE _merge_hybrid(sql_part, doc_part)

\* lines 690-698: the envelope and the elapsed time of a miss
Finish(t) ==
    /\ t \in threads
    /\ pc[t] = "finish"
    /\ \E elapsed \in LatenciesNow :
         loc' = [loc EXCEPT
                   ![t].final = FinalOf(loc[t].qtype, loc[t].sql_res, loc[t].doc_res),
                   ![t].elapsed = elapsed,
                   ![t].site = "misses"]
    /\ pc' = [pc EXCEPT ![t] = "inc_read"]
    /\ UNCHANGED <<cache, history, metrics, engine_cache, threads, budget,
                   reply, created, calls, origin, lat_log, completed,
                   was_reset, recency, lru_last, env,
                   jobs, job_run>>

\* line 700
MissRecord(t) ==
    /\ t \in threads
    /\ pc[t] = "miss_record"
    /\ metrics' = [metrics EXCEPT
                     !.exec_times = _record_time(@, loc[t].elapsed)]
    /\ lat_log' = Append(lat_log, loc[t].elapsed)
    /\ pc' = [pc EXCEPT ![t] = "cache_set"]
    /\ UNCHANGED <<cache, history, engine_cache, loc, threads, budget, reply,
                   created, calls, origin, completed, was_reset, recency,
                   lru_last, env,
                   jobs, job_run>>

\* line 701 given final_with_metrics: the metrics are cached with the envelope
ToCache_WithMetrics(final, final_with_metrics) == final_with_metrics

\* lines 698 and 701: of the envelope and the envelope with its metrics,
\* the one given to _cache.set
ToCache(final, final_with_metrics) == final

\* line 701 under "if 'error' not in final": an envelope with an error is
\* not stored
CacheSet_SkipErrors(t) ==
    /\ t \in threads
    /\ pc[t] = "cache_set"
    /\ cache' = IF "error" \in DOMAIN loc[t].final THEN cache
                ELSE LRUSet(cache, CacheCapacity, CacheKey(loc[t].req),
                            loc[t].final)
    /\ origin' = IF "error" \in DOMAIN loc[t].final THEN origin
                 ELSE DictWith(origin, CacheKey(loc[t].req), loc[t].req)
    /\ pc' = [pc EXCEPT ![t] = "miss_history"]
    /\ UNCHANGED <<history, metrics, engine_cache, loc, threads, budget,
                   reply, created, calls, lat_log, completed, was_reset,
                   recency, lru_last, env, jobs, job_run>>

\* line 701: _cache.set(cache_key, final)
CacheSet(t) ==
    /\ t \in threads
    /\ pc[t] = "cache_set"
    /\ cache' = LRUSet(cache, CacheCapacity, CacheKey(loc[t].req),
                       ToCache(loc[t].final,
                               DictWith(loc[t].final, "metrics",
                                        [elapsed_sec |-> loc[t].elapsed,
                                         cache |-> "miss"])))
    /\ origin' = DictWith(origin, CacheKey(loc[t].req), loc[t].req)
    /\ pc' = [pc EXCEPT ![t] = "miss_history"]
    /\ UNCHANGED <<history, metrics, engine_cache, loc, threads, budget,
                   reply, created, calls, lat_log, completed, was_reset,
                   recency, lru_last, env, jobs, job_run>>

\* lines 698, 702-705: the history entry of a miss, the trim, the return
MissHistory(t) ==
    LET
        \* lines 702-704: what the miss path leaves in _history
        HistoryAfterMiss(h, entry) ==
            LET appended == Append(h, entry)
            IN  IF Len(appended) > HistoryCap
                THEN DelAllButLast(appended, HistoryCap)
                ELSE appended
    IN  /\ t \in threads
        /\ pc[t] = "miss_history"
        /\ history' = HistoryAfterMiss(history,
                         [q |-> loc[t].req.q, time |-> loc[t].elapsed,
                          type |-> loc[t].final.type, cache |-> "miss"])
        /\ calls' = Returned(t, DictWith(loc[t].final, "metrics",
                                [elapsed_sec |-> loc[t].elapsed, cache |-> "miss"]))
        /\ completed' = completed + 1
        /\ pc' = [pc EXCEPT ![t] = "idle"]
        /\ loc' = [loc EXCEPT ![t] = NoLocals]
        /\ UNCHANGED <<cache, metrics, engine_cache, threads, budget, reply,
                       created, origin, lat_log, was_reset, recency, lru_last, env,
                       jobs, job_run>>

\* ====================================================== the other calls
\* reset_metrics without line 749: cache_hits is left as it was
ResetMetrics_KeepHits ==
    /\ MayStart
    /\ Concurrent => ~was_reset
    /\ metrics' = [total_queries |-> 0, cache_hits |-> metrics.cache_hits,
                   cache_misses |-> 0, exec_times |-> <<>>,
                   active_queries |-> 0, active_connections |-> 0]
    /\ lat_log' = <<>>
    /\ completed' = 0
    /\ was_reset' = TRUE
    /\ reply' = Absent
    /\ UNCHANGED <<cache, history, engine_cache, pc, loc, threads, budget,
                   created, calls, origin, recency, lru_last, env,
                   jobs, job_run>>

\* reset_metrics, lines 747-754
ResetMetrics ==
    /\ MayStart
    /\ Concurrent => ~was_reset
    /\ metrics' = [total_queries |-> 0, cache_hits |-> 0, cache_misses |-> 0,
                   exec_times |-> <<>>, active_queries |-> 0,
                   active_connections |-> 0]
    /\ lat_log' = <<>>
    /\ completed' = 0
    /\ was_reset' = TRUE
    /\ reply' = Absent
    /\ UNCHANGED <<cache, history, engine_cache, pc, loc, threads, budget,
                   created, calls, origin, recency, lru_last, env,
                   jobs, job_run>>

\* recent_history, line 709: list(_history[-limit:])[::-1]
recent_history(h, limit) ==
    LET
        \* lst[::-1]
        Reverse(s) == [i \in 1..Len(s) |-> s[Len(s) + 1 - i]]
    IN  Reverse(PySliceFrom(h, -limit))

RecentHistory(limit) ==
    /\ Idle
    /\ threads # {}
    /\ reply' = [op |-> "recent_history", limit |-> limit,
                 value |-> recent_history(history, limit)]
    /\ UNCHANGED <<cache, history, metrics, engine_cache, pc, loc, threads,
                   budget, created, calls, origin, lat_log, completed,
                   was_reset, recency, lru_last, env,
                   jobs, job_run>>

RECURSIVE SortAsc(_)
SortAsc(s) ==
    LET
        \* sorted(times): ascending
        RECURSIVE InsertAsc(_, _)
        InsertAsc(sorted, x) ==
            IF sorted = <<>> THEN <<x>>
            ELSE IF Head(sorted) <= x
                 THEN <<Head(sorted)>> \o InsertAsc(Tail(sorted), x)
                 ELSE <<x>> \o sorted
    IN  IF s = <<>> THEN <<>>
        ELSE InsertAsc(SortAsc(SubSeq(s, 1, Len(s) - 1)), s[Len(s)])

\* lines 716-719 with s = times: the index is taken in the unsorted window
P95_Unsorted(times) ==
    IF times = <<>> THEN 0
    ELSE times[Min(Len(times) - 1, (95 * Len(times)) \div 100) + 1]

\* lines 716-719: s[min(len(s) - 1, int(0.95 * len(s)))] of the sorted
\* window, 0.0 when it is empty. int(0.95 * n) is (95 * n) div 100 for every
\* n up to the code's cap of 500.
P95(times) ==
    IF times = <<>> THEN 0
    ELSE LET s == SortAsc(times)
         IN  s[Min(Len(s) - 1, (95 * Len(s)) \div 100) + 1]

\* get_metrics, lines 712-744. avg_exec_sec is the quotient sum / n, kept as
\* the pair of its terms (0.0 when the window is empty).
get_metrics(m) ==
    LET RECURSIVE Sum(_)
        Sum(s) == IF s = <<>> THEN 0 ELSE Head(s) + Sum(Tail(s))
        times == m.exec_times
    IN  [total_queries |-> m.total_queries,
         cache_hits |-> m.cache_hits,
         cache_misses |-> m.cache_misses,
         active_queries |-> m.active_queries,
         active_connections |-> m.active_connections,
         avg_exec_sec |-> IF times = <<>> THEN [sum |-> 0, n |-> 1]
                          ELSE [sum |-> Sum(times), n |-> Len(times)],
         p95_exec_sec |-> P95(times),
         recent_exec_times |-> PySliceFrom(times, -20)]

GetMetrics ==
    /\ Idle
    /\ threads # {}
    /\ reply' = [op |-> "get_metrics", value |-> get_metrics(metrics)]
    /\ UNCHANGED <<cache, history, metrics, engine_cache, pc, loc, threads,
                   budget, created, calls, origin, lat_log, completed,
                   was_reset, recency, lru_last, env,
                   jobs, job_run>>

\* the keys by last access, after an access of key
Touch(order, key) ==
    SelectSeq(order, LAMBDA k : k # key) \o <<key>>

\* the key held in c whose last access is the oldest, as a set (empty: none)
OldestHeld(order, c) ==
    LET held == SelectSeq(order, LAMBDA k : k \in CacheKeys(c))
    IN  IF held = <<>> THEN {} ELSE {Head(held)}

LruGet(key) ==
    /\ threads = {}
    /\ cache' = LRUGetCache(cache, key)
    /\ recency' = IF key \in CacheKeys(cache) THEN Touch(recency, key)
                  ELSE recency
    /\ lru_last' = [op |-> "get", key |-> key,
                    ret |-> LRUGetValue(cache, key),
                    before |-> CacheKeys(cache),
                    oldest |-> OldestHeld(recency, cache)]
    /\ UNCHANGED engine_vars

LruSet(key, value) ==
    /\ threads = {}
    /\ cache' = LRUSet(cache, CacheCapacity, key, value)
    /\ recency' = Touch(recency, key)
    /\ lru_last' = [op |-> "set", key |-> key, ret |-> value,
                    before |-> CacheKeys(cache),
                    oldest |-> OldestHeld(recency, cache)]
    /\ UNCHANGED engine_vars

Batches ==
    LET
        \* ====================================================== document_processor
        \* What becomes of a file of a batch: it gives chunks, which are embedded and
        \* stored; it gives no chunk; or a step of lines 235-246 raises, with the
        \* message str(e) of the exception, which is empty for an exception raised
        \* with no argument.
        FileOutcomes ==
            {[raises |-> FALSE, chunks |-> TRUE], [raises |-> FALSE, chunks |-> FALSE],
             [raises |-> TRUE, message |-> "File is not a zip file"],
             [raises |-> TRUE, message |-> ""]}
    IN  UNION {[1..n -> FileOutcomes] : n \in 0..MaxFiles}

\* the job the model follows
JobId == "job1"

\* _insert_job: INSERT OR REPLACE INTO jobs
_insert_job(table, job_id, total_files) ==
    [id \in DOMAIN table \cup {job_id} |->
        IF id = job_id
        THEN [status |-> "running", total_files |-> total_files,
              processed_files |-> 0, error |-> None]
        ELSE table[id]]

\* an _update_job that leaves the table as it is
_update_job_Lost(table, job_id, fields) == table

\* _update_job: UPDATE jobs SET <fields> WHERE id = job_id
_update_job(table, job_id, fields) ==
    [id \in DOMAIN table |->
        IF id = job_id
        THEN [c \in DOMAIN table[id] |->
                 IF c \in DOMAIN fields THEN fields[c] ELSE table[id][c]]
        ELSE table[id]]

\* upload_documents: create_job_record, then the job is handed to the
\* background tasks
CreateJobRecord(files) ==
    /\ job_run.pc = "none"
    /\ jobs' = _insert_job(jobs, JobId, Len(files))
    /\ job_run' = [pc |-> "queued", files |-> files, processed |-> 0,
                   written |-> <<>>]
    /\ UNCHANGED <<cache, history, metrics, engine_cache, pc, loc, threads,
                   budget, reply, created, calls, origin, lat_log, completed,
                   was_reset, recency, lru_last, env>>

\* start_ingestion_job, lines 228-231
StartJob ==
    /\ job_run.pc = "queued"
    /\ jobs' = _insert_job(jobs, JobId, Len(job_run.files))
    /\ job_run' = [job_run EXCEPT !.pc = "loop", !.processed = 0,
                                  !.written = <<0>>]
    /\ UNCHANGED <<cache, history, metrics, engine_cache, pc, loc, threads,
                   budget, reply, created, calls, origin, lat_log, completed,
                   was_reset, recency, lru_last, env>>

\* one turn of the loop of lines 233-247, on the next file of the batch
ProcessFile ==
    /\ job_run.pc = "loop"
    /\ job_run.processed < Len(job_run.files)
    /\ LET file == job_run.files[job_run.processed + 1]
       IN  IF file.raises
           THEN /\ job_run' = [job_run EXCEPT !.pc = "except"]
                /\ jobs' = jobs
           ELSE /\ job_run' = [job_run EXCEPT
                                  !.processed = @ + 1,
                                  !.written = Append(@, job_run.processed + 1)]
                /\ jobs' = _update_job(jobs, JobId,
                               [processed_files |-> job_run.processed + 1])
    /\ UNCHANGED <<cache, history, metrics, engine_cache, pc, loc, threads,
                   budget, reply, created, calls, origin, lat_log, completed,
                   was_reset, recency, lru_last, env>>

\* line 249, past the last file
CompleteJob ==
    /\ job_run.pc = "loop"
    /\ job_run.processed = Len(job_run.files)
    /\ jobs' = _update_job(jobs, JobId, [status |-> "completed"])
    /\ job_run' = [job_run EXCEPT !.pc = "returned"]
    /\ UNCHANGED <<cache, history, metrics, engine_cache, pc, loc, threads,
                   budget, reply, created, calls, origin, lat_log, completed,
                   was_reset, recency, lru_last, env>>

\* lines 250-251, with the exception of the file that raised
FailJob ==
    /\ job_run.pc = "except"
    /\ jobs' = _update_job(jobs, JobId,
                   [status |-> "failed",
                    error |-> job_run.files[job_run.processed + 1].message])
    /\ job_run' = [job_run EXCEPT !.pc = "returned"]
    /\ UNCHANGED <<cache, history, metrics, engine_cache, pc, loc, threads,
                   budget, reply, created, calls, origin, lat_log, completed,
                   was_reset, recency, lru_last, env>>

\* get_job_status, polled at any time
GetJobStatus ==
    /\ job_run.pc # "none"
    /\ reply' = IF JobId \in DOMAIN jobs
                THEN [job_id |-> JobId, status |-> jobs[JobId].status,
                      total_files |-> jobs[JobId].total_files,
                      processed_files |-> jobs[JobId].processed_files,
                      error |-> jobs[JobId].error]
                ELSE [job_id |-> JobId, status |-> "not_found"]
    /\ UNCHANGED <<cache, history, metrics, engine_cache, pc, loc, threads,
                   budget, created, calls, origin, lat_log, completed,
                   was_reset, recency, lru_last, env, jobs, job_run>>

\* ========================================================= specifications
Step(t) ==
    \/ pc[t] = "idle" /\ \E r \in RequestsNow : Call(t, r)
    \/ IncRead(t)
    \/ IncWrite(t)
    \/ CacheGet(t)
    \/ HitRecord(t)
    \/ HitHistory(t)
    \/ GetEngine(t)
    \/ CreateEngine(t)
    \/ Execute(t)
    \/ Search(t)
    \/ Finish(t)
    \/ MissRecord(t)
    \/ CacheSet(t)
    \/ MissHistory(t)

Next ==
    \/ \E t \in AllThreads : Step(t)
    \/ ResetMetrics
    \/ \E limit \in 0..MaxHistLimit : RecentHistory(limit)
    \/ GetMetrics

\* one caller, one operation at a time
Init == InitWith({1}, MaxCalls)
Spec == Init /\ [][Next]_vars

\* two threads
InitConc == InitWith({1, 2}, MaxConcCalls)
SpecConc == InitConc /\ [][Next]_vars

\* one call, on any request of WideRequests and any document store
InitQuery ==
    /\ InitEngine({1}, 1)
    /\ env \in [wide : {TRUE}, ingest : IngestStates]
StepQuery(t) ==
    \/ pc[t] = "idle" /\ \E r \in RequestsNow : Call(t, r)
    \/ IncRead(t)
    \/ IncWrite(t)
    \/ CacheGet(t)
    \/ GetEngine(t)
    \/ CreateEngine(t)
    \/ Execute(t)
    \/ Search(t)
    \/ Finish(t)
    \/ MissRecord(t)
    \/ CacheSet(t)
    \/ MissHistory(t)
NextQuery == \E t \in AllThreads : StepQuery(t)
SpecQuery == InitQuery /\ [][NextQuery]_vars

\* _search_documents on its own: a store, then searches of it
InitSearch ==
    /\ InitEngine({}, 0)
    /\ env \in [wide : {FALSE}, ingest : {"absent"}, rows : {<<>>}]
               \cup [wide : {FALSE}, ingest : {"present"}, rows : Stores]
SearchCall(q_vec, top_k, offset) ==
    /\ threads = {}
    /\ "rows" \in DOMAIN env
    /\ reply' = [q_vec |-> q_vec, top_k |-> top_k, offset |-> offset,
                 ret |-> _search_documents(env.ingest # "absent", env.rows,
                                           q_vec, top_k, offset)]
    /\ UNCHANGED <<cache, history, metrics, engine_cache, pc, loc, threads,
                   budget, created, calls, origin, lat_log, completed,
                   was_reset, recency, lru_last, env,
                   jobs, job_run>>
NextSearch ==
    LET QueryVectors == {<<1, 2>>, <<2, 1>>, <<1, 1>>}
    IN  \E q_vec \in QueryVectors, top_k \in 0..MaxLimit,
           offset \in -1..MaxOffset : SearchCall(q_vec, top_k, offset)
SpecSearch == InitSearch /\ [][NextSearch]_vars

\* an ingestion job from its upload on, with a client polling its status
InitIngest == InitWith({}, 0)
NextIngest ==
    \/ \E files \in Batches : CreateJobRecord(files)
    \/ StartJob
    \/ ProcessFile
    \/ CompleteJob
    \/ FailJob
    \/ GetJobStatus
SpecIngest == InitIngest /\ [][NextIngest]_vars

\* ---------------------------------------------- the files change
\* document_processor.py: reset_ingestion leaves the tables of the store
\* with no row
ResetIngestion ==
    /\ Idle
    /\ "db" \in DOMAIN env
    /\ env.changes > 0
    /\ env.ingest # "empty"
    /\ env' = [env EXCEPT !.ingest = "empty", !.changes = @ - 1]
    /\ UNCHANGED <<cache, history, metrics, engine_cache, pc, loc, threads,
                   budget, reply, created, calls, origin, lat_log, completed,
                   was_reset, recency, lru_last, jobs, job_run>>

\* document_processor.py: init_storage and _insert_chunks of an ingestion
\* job leave the store with its tables and the chunks
ChunksInserted ==
    /\ Idle
    /\ "db" \in DOMAIN env
    /\ env.changes > 0
    /\ env.ingest # "present"
    /\ env' = [env EXCEPT !.ingest = "present", !.changes = @ - 1]
    /\ UNCHANGED <<cache, history, metrics, engine_cache, pc, loc, threads,
                   budget, reply, created, calls, origin, lat_log, completed,
                   was_reset, recency, lru_last, jobs, job_run>>

\* The database file behind a connection string is written anew, as
\* create_sample_db.py does for example.db: it becomes the example database
\* (tables dropped and created, rows inserted), or a database with no table.
DatabaseChanges(conn_str, db) ==
    /\ Idle
    /\ "db" \in DOMAIN env
    /\ env.changes > 0
    /\ env.db[conn_str] # db
    /\ env' = [env EXCEPT !.db[conn_str] = db, !.changes = @ - 1]
    /\ UNCHANGED <<cache, history, metrics, engine_cache, pc, loc, threads,
                   budget, reply, created, calls, origin, lat_log, completed,
                   was_reset, recency, lru_last, jobs, job_run>>

\* calls one at a time, with the document store and the database files
\* changing between them; example.db is there from the start or is not
InitChange ==
    /\ InitEngine({1}, MaxConcCalls)
    /\ env \in [wide : {TRUE}, ingest : IngestStates,
                 db : {[cs \in DOMAIN Databases |->
                          IF cs = DefaultConnStr THEN d ELSE cs] :
                       d \in {DefaultConnStr, EmptyConnStr}},
                 changes : {MaxChanges}]
NextChange ==
    \/ \E t \in AllThreads : Step(t)
    \/ ResetIngestion
    \/ ChunksInserted
    \/ \E cs \in {ConnStrOf(r.cs) : r \in ChangeRequests},
          db \in {DefaultConnStr, EmptyConnStr} : DatabaseChanges(cs, db)
SpecChange == InitChange /\ [][NextChange]_vars

\* an LRUCache on its own
InitLRU == InitWith({}, 0)
NextLRU ==
    LET
        \* ============================================== LRUCache, called directly
        \* The values and keys given to an LRUCache of capacity CacheCapacity when
        \* its get and set are called in any order.
        LruValues == {[val |-> 1], [val |-> 2]}
        LruKeys == [cs : ConnStrings, l : {2}, q : Queries]
    IN  \/ \E key \in LruKeys : LruGet(key)
        \/ \E key \in LruKeys, value \in LruValues : LruSet(key, value)
SpecLRU == InitLRU /\ [][NextLRU]_vars

\* ============================================================ properties
\* the keys the last LRUCache call removed
LruRemoved == lru_last.before \ CacheKeys(cache)

\* C1: LRUCache eviction order. Only a set of a new key on a full cache
\* removes a key; it removes exactly one, the held key whose last access (a
\* get that found it, or a set of it) is the oldest; the removed key is no
\* longer held, and a get of a key that is not held returns None.
C1_EvictsLeastRecentlyUsed ==
    /\ LruRemoved # {} =>
         /\ lru_last.op = "set"
         /\ lru_last.key \notin lru_last.before
         /\ Cardinality(lru_last.before) = CacheCapacity
         /\ LruRemoved = lru_last.oldest
    /\ (/\ lru_last.op = "set"
        /\ lru_last.key \notin lru_last.before
        /\ Cardinality(lru_last.before) = CacheCapacity) =>
         Cardinality(LruRemoved) = 1
    /\ (lru_last.op = "get" /\ lru_last.key \notin lru_last.before) =>
         lru_last.ret = Absent
    /\ (lru_last.op = "get" /\ lru_last.key \in lru_last.before) =>
         lru_last.ret # Absent

\* an eviction by the set of a new key, after more keys than the cache holds
\* have been in use; the key evicted is gone
C1_Witness ==
    /\ lru_last.op = "set"
    /\ LruRemoved # {}
    /\ LruRemoved = lru_last.oldest
    /\ Len(recency) > CacheCapacity + 1
    /\ LRUGetValue(cache, recency[1]) = Absent

\* C2: the cache is bounded. After every get or set it holds at most
\* CacheCapacity entries, and a set of a key that is present removes none.
C2_CacheBounded ==
    /\ Len(cache) <= CacheCapacity
    /\ Cardinality(CacheKeys(cache)) = Len(cache)
    /\ (lru_last.op = "set" /\ lru_last.key \in lru_last.before) =>
         CacheKeys(cache) = lru_last.before

\* a set of a key that is present in a full cache
C2_Witness ==
    /\ lru_last.op = "set"
    /\ lru_last.key \in lru_last.before
    /\ Len(cache) = CacheCapacity
    /\ lru_last.ret = cache[Len(cache)].v

\* the envelope of a result, without its metrics
Payload(result) == DictWithout(result, "metrics")

ComputedOn(r, ingest) ==
    LET qtype == _classify(r.q)
        sql_res == IF qtype \notin {"sql", "hybrid"} THEN Absent
                   ELSE SqlResult(r)
        doc_res == IF qtype \notin {"document", "hybrid"} THEN Absent
                   ELSE IF SearchRaises(ingest) THEN DocErrorEnvelope
                   ELSE _search_documents(ingest # "absent",
                                          IngestStore(ingest), Embed(r.q),
                                          r.doc_limit, r.doc_offset)
    IN  FinalOf(qtype, sql_res, doc_res)

\* the same for the requests of Requests with the store in place, worked out
\* once
ComputedInPlace == {<<r, ComputedOn(r, "present")>> : r \in Requests}

\* what a miss computes for the request r
Computed(r) ==
    IF env.ingest = "present" /\ r \in Requests
    THEN (CHOOSE p \in ComputedInPlace : p[1] = r)[2]
    ELSE ComputedOn(r, env.ingest)

\* C4: only the query text, the connection string and the limit form the
\* cache key. A call made while the cache holds the result of an earlier call
\* with the same three is a hit: it returns what was computed for the earlier
\* call's offsets, and runs neither the SQL nor the document search.
C4_OffsetsShareEntry ==
    \A i \in 1..Len(calls) :
        calls[i].src # {} =>
            /\ calls[i].result.metrics.cache = "hit"
            /\ \E o \in calls[i].src : Payload(calls[i].result) = Computed(o)
            /\ calls[i].ran = {}

\* a hit on the listing at an offset other than the one its rows are for
C4_Witness ==
    /\ Len(calls) >= 1
    /\ LET c == calls[Len(calls)]
       IN  /\ c.src # {}
           /\ c.req.q = QList
           /\ \A o \in c.src : o.offset # c.req.offset
           /\ c.result.pagination.offset # c.req.offset
           /\ c.result.rows # Computed(c.req).rows

\* thread t is inside a _with_active_query scope
InQueryScope(t) ==
    \/ pc[t] \in {"get_engine", "create_engine", "execute", "search"}
    \/ /\ pc[t] \in {"inc_read", "inc_write"}
       /\ loc[t].site \in {"conn_in", "conn_out", "aq_sql_out", "aq_doc_out"}

\* thread t is inside the connection scope of _run_sql, past its _inc
InConnScope(t) ==
    \/ pc[t] = "execute"
    \/ pc[t] \in {"inc_read", "inc_write"} /\ loc[t].site = "conn_out"

\* C5: the activity gauges. With one caller, active_queries is 1 inside a
\* _with_active_query scope and 0 outside, active_connections is 1 inside the
\* connection scope of _run_sql and 0 outside, whether the scope raises or
\* not; a call returns with both gauges as it found them.
C5_GaugesRestored ==
    /\ \A t \in threads :
         /\ metrics.active_queries = IF InQueryScope(t) THEN 1 ELSE 0
         /\ metrics.active_connections = IF InConnScope(t) THEN 1 ELSE 0
    /\ \A i \in 1..Len(calls) : calls[i].g1 = calls[i].g0

\* a call whose statement raised inside the connection scope has returned
C5_Witness ==
    /\ Len(calls) >= 1
    /\ LET c == calls[Len(calls)]
       IN  /\ c.ran = {"sql", "document"}
           /\ "error" \in DOMAIN c.result.sql
           /\ c.g1 = c.g0
    /\ Idle
    /\ metrics.active_queries = 0
    /\ metrics.active_connections = 0

\* C6: no counter update is lost when process_query calls interleave. Once
\* all calls have returned, and reset_metrics has not run, total_queries and
\* cache_hits + cache_misses both equal the number of calls.
C6_NoLostUpdate ==
    (Idle /\ ~was_reset) =>
        /\ metrics.total_queries = completed
        /\ metrics.cache_hits + metrics.cache_misses = completed

\* C7: the engine registry. create_engine is called at most once for each
\* connection string, and every _get_engine call returns the engine the
\* registry holds for its string, also when two calls interleave.
C7_OneEnginePerString ==
    /\ \A cs \in EngineStrings : created[cs] <= 1
    /\ \A t \in threads :
         loc[t].eng # 0 => loc[t].eng = engine_cache[ConnStrOf(loc[t].req.cs)]

\* C8: the history log is capped. After any sequence of process_query
\* calls, hits or misses, _history holds at most HistoryCap entries.
C8_HistoryCapped == Idle => Len(history) <= HistoryCap

\* the n most recent entries of h, the most recent first
MostRecent(h, n) == [i \in 1..Min(n, Len(h)) |-> h[Len(h) + 1 - i]]

\* C9: recent_history(limit) returns the min(limit, number of entries) most
\* recent entries, the most recent first, for every limit >= 0.
C9_RecentHistory ==
    (reply # Absent /\ reply.op = "recent_history") =>
        reply.value = MostRecent(history, reply.limit)

\* C10: the latency window. exec_times holds at most ExecTimesCap entries,
\* which are the latencies of the last min(ExecTimesCap, k) of the k calls
\* recorded since the last reset, in call order; every call, hit or miss,
\* records one latency.
C10_LatencyWindow ==
    LET k == Len(lat_log)
        m == Min(ExecTimesCap, k)
    IN  /\ Len(metrics.exec_times) <= ExecTimesCap
        /\ metrics.exec_times = [i \in 1..m |-> lat_log[k - m + i]]
        /\ Idle => k = completed

\* more calls than the window holds, a hit and a miss among them, and two
\* different latencies in the window
C10_Witness ==
    /\ Idle
    /\ Len(lat_log) > ExecTimesCap
    /\ completed = Len(lat_log)
    /\ metrics.cache_hits > 0
    /\ metrics.cache_misses > 0
    /\ metrics.exec_times[1] # metrics.exec_times[Len(metrics.exec_times)]

\* the latencies of the window below v, and those up to v
Below(times, v) == Cardinality({i \in 1..Len(times) : times[i] < v})
UpTo(times, v) == Cardinality({i \in 1..Len(times) : times[i] <= v})

\* v is the element at index idx (from 0) of the window sorted ascending
AtRank(times, idx, v) ==
    /\ \E i \in 1..Len(times) : times[i] = v
    /\ Below(times, v) <= idx
    /\ idx < UpTo(times, v)

\* C11 as stated: p95_exec_sec of a window of n >= 1 latencies is the
\* element at index floor(0.95 * (n - 1)) of the window sorted ascending,
\* and 0 for an empty window.
C11_P95AsStated ==
    (reply # Absent /\ reply.op = "get_metrics") =>
        LET times == metrics.exec_times
            n == Len(times)
        IN  IF n = 0 THEN reply.value.p95_exec_sec = 0
            ELSE AtRank(times, (95 * (n - 1)) \div 100,
                        reply.value.p95_exec_sec)

\* C11, amended: p95_exec_sec of a window of n >= 1 latencies is the element
\* at index min(n - 1, floor(0.95 * n)) of the window sorted ascending, and
\* 0 for an empty window; get_metrics leaves the window as it is.
C11_P95 ==
    (reply # Absent /\ reply.op = "get_metrics") =>
        LET times == metrics.exec_times
            n == Len(times)
        IN  /\ IF n = 0 THEN reply.value.p95_exec_sec = 0
               ELSE AtRank(times, Min(n - 1, (95 * n) \div 100),
                           reply.value.p95_exec_sec)
            /\ reply.value.recent_exec_times = times

\* get_metrics on a full window whose latencies are not in ascending order
C11_Witness ==
    /\ reply # Absent
    /\ reply.op = "get_metrics"
    /\ Len(metrics.exec_times) = ExecTimesCap
    /\ metrics.exec_times[1] > metrics.exec_times[Len(metrics.exec_times)]
    /\ reply.value.p95_exec_sec = metrics.exec_times[1]

\* the query carries a structured-data cue, a document cue
StructuredCue(q) ==
    \/ Mentions(lower(q), sql_keys)
    \/ HasWord(lower(q), skill_role_signals)
DocumentCue(q) == Mentions(lower(q), doc_keys)

Routed(q) ==
    IF StructuredCue(q) /\ DocumentCue(q) THEN "hybrid"
    ELSE IF DocumentCue(q) THEN "document"
    ELSE "sql"

\* C12: routing. A query with both cues is routed hybrid, with only a
\* structured cue sql, with only a document cue document, with neither sql.
\* A call that misses the cache enters _run_sql exactly when the route is sql
\* or hybrid and _search_documents exactly when it is document or hybrid,
\* and the type of its envelope is the route.
C12_Routing ==
    /\ \A t \in threads :
         /\ "sql" \in loc[t].ran => Routed(loc[t].req.q) \in {"sql", "hybrid"}
         /\ "document" \in loc[t].ran =>
                Routed(loc[t].req.q) \in {"document", "hybrid"}
    /\ \A i \in 1..Len(calls) :
         LET c == calls[i]
         IN  c.result.metrics.cache = "miss" =>
               /\ c.result.type = Routed(c.req.q)
               /\ "sql" \in c.ran <=> Routed(c.req.q) \in {"sql", "hybrid"}
               /\ "document" \in c.ran <=>
                      Routed(c.req.q) \in {"document", "hybrid"}

\* a query with neither cue has been answered by the SQL path alone
C12_Witness ==
    /\ Len(calls) = 1
    /\ calls[1].req.q = QHello
    /\ ~StructuredCue(QHello) /\ ~DocumentCue(QHello)
    /\ calls[1].ran = {"sql"}
    /\ calls[1].result.type = "sql"

\* the calls of "resume with python skills" made with no document store, or
\* with a store that holds no chunk
ResumeCalls ==
    {i \in 1..Len(calls) :
        /\ calls[i].req.q = QResume
        /\ env.ingest \in {"absent", "empty"}}

\* C13 as stated: "resume with Python skills" against an empty or absent
\* document store yields an envelope of type "document" with results = []
\* and no error.
C13_ResumeIsDocument ==
    \A i \in ResumeCalls :
        /\ calls[i].result.type = "document"
        /\ calls[i].result.results = <<>>
        /\ "error" \notin DOMAIN calls[i].result

\* C13, amended: "resume with Python skills" against an empty or absent
\* document store yields an envelope of type "hybrid" (Python is a skill
\* token, a structured-data cue) whose documents part is of type "document"
\* with results = [] and no error.
C13_ResumeIsHybrid ==
    \A i \in ResumeCalls :
        /\ calls[i].result.type = "hybrid"
        /\ calls[i].result.documents.type = "document"
        /\ calls[i].result.documents.results = <<>>
        /\ "error" \notin DOMAIN calls[i].result.documents

\* the query has been answered with no ingestion.db on disk
C13_Witness ==
    /\ ResumeCalls # {}
    /\ env.ingest = "absent"
    /\ calls[1].ran = {"sql", "document"}
    /\ calls[1].result.documents = [type |-> "document", results |-> <<>>]

\* ------------------------------------------------------------------- C14
\* the SQL part and the document part of what a call returned
SqlPart(c) ==
    IF c.result.type = "hybrid" THEN c.result.sql ELSE Payload(c.result)
DocPart(c) ==
    IF c.result.type = "hybrid" THEN c.result.documents ELSE Payload(c.result)

\* what the statements of the request r raise on its database
SqlRaised(r) ==
    Connected(Prepared(r.q, Database(ConnStrOf(r.cs)), r.limit, r.offset,
                       _infer_intent(_normalize_tokens(r.q))).stmt,
              Database(ConnStrOf(r.cs))).raised

\* C14: every process_query call returns an envelope of the type the query
\* is classified as; if its SQL path raised, the SQL part is exactly {type:
\* sql, error: the message raised, rows: []}; if its document path raised,
\* the document part is exactly {type: document, error: the message,
\* results: []}; and in a hybrid call where one path raised, the part of the
\* other path is what that path returned.
C14_FailureIsolation ==
    \A i \in 1..Len(calls) :
        LET c == calls[i]
            r == c.req
        IN  /\ c.result.type = _classify(r.q)
            /\ "sql" \in c.raised =>
                   /\ SqlRaised(r) # ""
                   /\ SqlPart(c) = [type |-> "sql", error |-> SqlRaised(r),
                                    rows |-> <<>>]
            /\ "document" \in c.raised =>
                   DocPart(c) = [type |-> "document",
                                 error |-> "no such table: chunks",
                                 results |-> <<>>]
            /\ c.result.type = "hybrid" /\ c.raised = {"sql"} =>
                   c.result.documents =
                       _search_documents(env.ingest # "absent",
                                         IngestStore(env.ingest), Embed(r.q),
                                         r.doc_limit, r.doc_offset)
            /\ c.result.type = "hybrid" /\ c.raised = {"document"} =>
                   c.result.sql = SqlResult(r)

\* a hybrid call whose SQL statement raised has returned the documents found
C14_Witness ==
    \E i \in 1..Len(calls) :
        /\ calls[i].result.type = "hybrid"
        /\ calls[i].raised = {"sql"}
        /\ "error" \in DOMAIN calls[i].result.sql
        /\ calls[i].result.documents.results # <<>>

\* ------------------------------------------------------------------- C15
\* the table an entity keyword stands for
EntityTable(w) ==
    CASE w = "contractors"             -> "contractors"
      [] w \in {"vendor", "vendors"}   -> "vendors"
      [] w \in {"intern", "interns"}   -> "interns"
      [] w \in {"project", "projects"} -> "projects"
      [] OTHER                         -> ""

\* the tables the request r names by an entity keyword and its database
\* does not have
EntitiesAbsent(r) ==
    {EntityTable(w) : w \in {_normalize_tokens(r.q)[i] :
                                i \in 1..Len(r.q)}}
    \ ({""} \cup Database(ConnStrOf(r.cs)).tables)

\* C15: while a call is at work on a query that names an entity whose table
\* the database lacks, no statement is prepared or executed and the
\* connection scope is never entered (active_connections stays as the call
\* found it); what _run_sql returned for such a query is the envelope with a
\* 'missing entity' error for one of those tables, sql = None, no params,
\* rows = [] and no pagination.
C15_EntityGuard ==
    /\ \A t \in threads :
          loc[t].req # Absent /\ EntitiesAbsent(loc[t].req) # {} =>
              /\ pc[t] # "execute"
              /\ loc[t].stmt = Absent
              /\ loc[t].site \notin {"conn_in", "conn_out"}
              /\ metrics.active_connections = loc[t].g0.active_connections
    /\ \A i \in 1..Len(calls) :
          "sql" \in calls[i].ran /\ EntitiesAbsent(calls[i].req) # {} =>
              \E table \in EntitiesAbsent(calls[i].req) :
                  SqlPart(calls[i]) =
                      [type |-> "sql", sql |-> NoSql, params |-> <<>>,
                       rows |-> <<>>, pagination |-> Absent,
                       error |->
                         "error: not present in your database (missing entity: '"
                         \o table \o "')"]

\* a call for interns who know Python, on a database without an interns
\* table, has returned from _run_sql
C15_Witness ==
    \E i \in 1..Len(calls) :
        /\ calls[i].req.q = QInterns
        /\ "sql" \in calls[i].ran
        /\ EntitiesAbsent(calls[i].req) = {"interns"}
        /\ "error" \in DOMAIN SqlPart(calls[i])

\* ------------------------------------------------------------------- C16
\* the person p has the word w in the attribute attr
Mentioning(p, attr, w) ==
    attr \in DOMAIN p /\ \E i \in 1..Len(p[attr]) : p[attr][i] = w

\* the places in People, which is in ascending id order, of the employees
\* the filters of the listing q match
Wanted(q) ==
    SelectSeq([k \in 1..Len(People) |-> k], LAMBDA k :
        CASE q = QList   -> TRUE
          [] q = QPython -> \/ Mentioning(People[k], "skills", "python")
                            \/ Mentioning(People[k], "position", "python")
          [] q = QSenior -> Mentioning(People[k], "position", "senior"))

\* the row returned shows the employee row erow
Shows(row, erow) ==
    \A col \in DOMAIN erow : col \in DOMAIN row /\ row[col] = erow[col]

\* the calls that ran _run_sql for a listing on a database with employees
ListingCalls ==
    {i \in 1..Len(calls) :
        /\ calls[i].req.q \in PagedQueries
        /\ "sql" \in calls[i].ran
        /\ Database(ConnStrOf(calls[i].req.cs)).tables # {}}

\* C16: a listing whose filters match N employees, asked for with limit L
\* and offset O, returns min(L, max(0, N - O)) rows, which are the matching
\* employees in ascending id order from the (O+1)-th on, and its
\* pagination.total is N.
C16_Pagination ==
    \A i \in ListingCalls :
        LET r     == calls[i].req
            db    == Database(ConnStrOf(r.cs))
            erows == db.rows[_detect_schema(db).emp_table]
            N     == Len(Wanted(r.q))
            got   == SqlPart(calls[i])
        IN  /\ Len(got.rows) = Min(r.limit, Max(0, N - r.offset))
            /\ \A j \in 1..Len(got.rows) :
                   Shows(got.rows[j], erows[Wanted(r.q)[r.offset + j]])
            /\ "pagination" \in DOMAIN got
            /\ got.pagination # Absent
            /\ got.pagination.total = N

\* ------------------------------------------------------------------- C17
\* the kind of filter a bound parameter of _infer_filters belongs to
ParamKind(name, n) ==
    IF name \in {"skill_kw_" \o ToString(i) : i \in 0..n} THEN "skill_kw"
    ELSE IF name \in {"pos_kw_" \o ToString(i) : i \in 0..n} THEN "pos_kw"
    ELSE name

\* the fragments that bind nothing
Unbound ==
    {"strftime('%Y', 'now')", "EMAIL_IS_MISSING", "NAME_IS_MISSING",
     "SKILLS_IS_MISSING", "DEPARTMENT_IS_MISSING", "POSITION_IS_MISSING",
     "SALARY_IS_MISSING", "HIRE_DATE_IS_MISSING", "REPORTS_TO_IS_MISSING"}

\* the filter kinds the query q triggers
FilterKinds(q) ==
    LET f == _infer_filters(_normalize_tokens(q))
    IN  {ParamKind(name, Len(q)) : name \in DOMAIN f.params}
        \cup ({f.where[i] : i \in 1..Len(f.where)} \cap Unbound)

\* how many skill keywords and position keywords q has
KeywordCounts(q) ==
    <<Len(SelectSeq(_normalize_tokens(q), LAMBDA w : w \in SkillWords)),
      Len(PosScan(_normalize_tokens(q), 1))>>

\* the entities q names: employees, departments, and the tables of the
\* entity keywords
EntitiesNamed(q) ==
    [employees   |-> Found(_normalize_tokens(q), <<{"employee", "employees"}>>),
     departments |-> Found(_normalize_tokens(q),
                           <<{"department", "departments"}>>),
     others      |-> {EntityTable(_normalize_tokens(q)[i]) :
                        i \in 1..Len(q)} \ {""}]

\* the statement _run_sql makes for the request r (None: it makes none)
SqlOf(r) ==
    LET prep == Prepared(r.q, Database(ConnStrOf(r.cs)), r.limit, r.offset,
                         _infer_intent(_normalize_tokens(r.q)))
    IN  IF prep.ret # Absent THEN prep.ret.sql ELSE prep.stmt.sql

\* the bound parameters that are numbers
IntParams == {"limit", "offset", "topn", "id_exact"}

\* the literals bound: the words of the texts and the numbers as typed
Literals(params) ==
    UNION {IF name \in IntParams THEN {ToString(params[name])}
           ELSE {params[name][i] : i \in 1..Len(params[name])} :
           name \in DOMAIN params}

\* the names of the tables and columns of a database
Identifiers(db) == db.tables \cup UNION {db.columns[t] : t \in db.tables}

\* no literal bound is a token of the statement, unless it is the name of a
\* table or column of the database
NoUserText(params, sql, db) ==
    \A k \in 1..Len(sql) :
        sql[k] \in Literals(params) => sql[k] \in Identifiers(db)

\* the calls whose envelope carries the statement of _run_sql
SqlCalls ==
    {i \in 1..Len(calls) :
        "sql" \in calls[i].ran /\ "sql" \in DOMAIN SqlPart(calls[i])}

\* the requests on the database of r whose query triggers the same filter
\* kinds and has the same intent as that of r
SameKinds(r) ==
    {r2 \in WideRequests :
        /\ r2.cs = r.cs
        /\ FilterKinds(r2.q) = FilterKinds(r.q)
        /\ _infer_intent(_normalize_tokens(r2.q))
           = _infer_intent(_normalize_tokens(r.q))}

\* C17 as stated: on one database, a query that triggers the same filter
\* kinds and has the same intent as the query of a call gets the very
\* statement the call returned, and no literal bound is in the statement
\* (but as the name of a table or column).
C17_SameSqlAsStated ==
    \A i \in SqlCalls :
        /\ \A r2 \in SameKinds(calls[i].req) :
               SqlOf(r2) = SqlPart(calls[i]).sql
        /\ NoUserText(SqlPart(calls[i]).params, SqlPart(calls[i]).sql,
                      Database(ConnStrOf(calls[i].req.cs)))

\* C17: on one database, a query that triggers the same filter kinds with as
\* many skill keywords and as many position keywords, names the same
\* entities and has the same intent as the query of a call gets the very
\* statement the call returned, and no literal bound is in the statement
\* (but as the name of a table or column).
C17_SameSql ==
    \A i \in SqlCalls :
        /\ \A r2 \in SameKinds(calls[i].req) :
               /\ KeywordCounts(r2.q) = KeywordCounts(calls[i].req.q)
               /\ EntitiesNamed(r2.q) = EntitiesNamed(calls[i].req.q)
               => SqlOf(r2) = SqlPart(calls[i]).sql
        /\ NoUserText(SqlPart(calls[i]).params, SqlPart(calls[i]).sql,
                      Database(ConnStrOf(calls[i].req.cs)))

\* a call for the employees hired in 2020 has returned a statement, and the
\* query for those hired in 2024 is of the same kinds
C17_Witness ==
    \E i \in SqlCalls :
        /\ calls[i].req.q = QHired20
        /\ SqlPart(calls[i]).sql # NoSql
        /\ Literals(SqlPart(calls[i]).params) \cap {"2020"} # {}
        /\ \E r2 \in SameKinds(calls[i].req) :
              /\ r2.q = QHired24
              /\ KeywordCounts(r2.q) = KeywordCounts(QHired20)
              /\ EntitiesNamed(r2.q) = EntitiesNamed(QHired20)

\* ------------------------------------------------------------------- C18
\* the columns the mapping m names, under the aliases of the statement
MappedRefs(m) ==
    {"e." \o m.emp[a] : a \in {x \in DOMAIN m.emp : m.emp[x] # None}}
    \cup (IF m.dept = Absent THEN {}
          ELSE {"d." \o m.dept[a] : a \in DOMAIN m.dept})

\* the columns a statement refers to from its first WHERE on
FilterRefs(sql) ==
    {sql[k] : k \in {j \in 1..Len(sql) :
                       \E w \in 1..(j - 1) : sql[w] = "WHERE"}}
    \cap (ERefs \cup DRefs)

\* C18: the fragments _infer_filters emits for the query of a call name no
\* column, and every column that the filters of a statement about to be
\* executed refer to is a column of the mapping detected for the database.
C18_FilterColumns ==
    \A t \in threads :
        /\ loc[t].req # Absent =>
               \A k \in 1..Len(_infer_filters(
                                  _normalize_tokens(loc[t].req.q)).where) :
                   _infer_filters(_normalize_tokens(loc[t].req.q)).where[k]
                       \notin ERefs \cup DRefs
        /\ pc[t] = "execute" =>
               FilterRefs(loc[t].stmt.sql) \subseteq
                   MappedRefs(_detect_schema(
                                  Database(ConnStrOf(loc[t].req.cs))))

\* ------------------------------------------------------------------- C19
\* the mapping m names the optional columns of the employee table only
\* where the database db has them
OptionalAsPresent(m, db) ==
    \A a \in Optional :
        m.emp[a] # None =>
            /\ m.emp_table \in db.tables
            /\ m.emp[a] \in db.columns[m.emp_table]

\* C19: once _run_sql has detected the schema of its database, whatever the
\* dialect, the email, skills and reports_to entries of the mapping name a
\* column only if the employee table has that column, and are None
\* otherwise.
C19_OptionalColumns ==
    \A t \in threads :
        loc[t].eng # 0 =>
            OptionalAsPresent(
                _detect_schema(Database(ConnStrOf(loc[t].req.cs))),
                Database(ConnStrOf(loc[t].req.cs)))

\* ------------------------------------------------------------------- C20
\* the request r is a listing that mentions departments but not employees
DepartmentsOnly(r) ==
    /\ Found(_normalize_tokens(r.q), <<{"department", "departments"}>>)
    /\ ~Found(_normalize_tokens(r.q), <<{"employee", "employees"}>>)
    /\ _infer_intent(_normalize_tokens(r.q)) = "select"

\* how many times the token tok is in the statement
CountOf(sql, tok) == Cardinality({k \in 1..Len(sql) : sql[k] = tok})

\* the row shows a department
ShowsDepartment(row) ==
    \E k \in 1..Len(Departments) :
        /\ DOMAIN row = {"dept_id", "dept_name", "manager_id"}
        /\ row.dept_id = Departments[k].id
        /\ row.dept_name = Departments[k].name

\* C20: the statement _run_sql is about to execute for a listing that
\* mentions departments but not employees is well formed, has one ORDER BY,
\* one LIMIT and one OFFSET and does not name the employee table; and on a
\* database with a department table such a call has returned department
\* rows and no error.
C20_DepartmentsOnly ==
    /\ \A t \in threads :
          pc[t] = "execute" /\ DepartmentsOnly(loc[t].req) =>
              /\ WellFormed(Clauses(loc[t].stmt.sql))
              /\ CountOf(loc[t].stmt.sql, "ORDER BY") = 1
              /\ CountOf(loc[t].stmt.sql, "LIMIT") = 1
              /\ CountOf(loc[t].stmt.sql, "OFFSET") = 1
              /\ CountOf(loc[t].stmt.sql,
                         _detect_schema(Database(ConnStrOf(loc[t].req.cs)))
                             .emp_table) = 0
    /\ \A i \in 1..Len(calls) :
          /\ "sql" \in calls[i].ran
          /\ DepartmentsOnly(calls[i].req)
          /\ _detect_schema(Database(ConnStrOf(calls[i].req.cs))).dept_table
                \in Database(ConnStrOf(calls[i].req.cs)).tables
          => /\ "error" \notin DOMAIN SqlPart(calls[i])
             /\ SqlPart(calls[i]).rows # <<>>
             /\ \A j \in 1..Len(SqlPart(calls[i]).rows) :
                    ShowsDepartment(SqlPart(calls[i]).rows[j])

\* ------------------------------------------------------------------- C21
\* the intent _infer_intent gives the query of the request r
IntentOf(r) == _infer_intent(_normalize_tokens(r.q))

\* the tokens toks are in the statement, one after the other
Holds(sql, toks) ==
    \E k \in 0..(Len(sql) - Len(toks)) :
        \A j \in 1..Len(toks) : sql[k + j] = toks[j]

\* the shape of an average by department: grouped by a department column,
\* ordered by the average, highest first, and not paged
GroupedAverage(stmt) ==
    /\ \E g \in DRefs \cup ERefs :
           Holds(stmt.sql, <<"GROUP BY", g, "ORDER BY", "avg_salary", "DESC">>)
    /\ stmt.sql[Len(stmt.sql)] = "DESC"

\* the shape of a top N per department: ranked within the department by
\* salary, highest first, and cut at the bound :topn, which is n
RankedTop(stmt, n) ==
    /\ \E g \in DRefs \cup ERefs, s \in ERefs :
           Holds(stmt.sql, <<"ROW_NUMBER() OVER (PARTITION BY", g, "ORDER BY",
                             s, "DESC", ") AS rn">>)
    /\ Holds(stmt.sql, <<"WHERE", "z.rn", "<=", ":topn">>)
    /\ "topn" \in DOMAIN stmt.params
    /\ stmt.params.topn = n

\* the number the query asks for after "top" (5: none)
AskedTop(q) ==
    LET qn == _normalize_tokens(q)
        i  == FirstAt(qn, <<{"top"}, Digits>>)
    IN  IF i = 0 THEN 5 ELSE Num(qn[i + 1])

\* the intents whose statement is neither paged nor counted
Unpaged == {"avg_by_dept", "top_paid_each_dept", "count"}

\* C21: whatever the database, the statement _run_sql is about to execute
\* for an average-by-department query is grouped by department and ordered
\* by the average salary, highest first; for a top-N-per-department query it
\* ranks within the department and is cut at N (5 when the query gives no
\* number); for these two intents and for a count there is no companion
\* count statement, no LIMIT and no OFFSET, and the call returns pagination
\* None; a listing or a find-one has both LIMIT and OFFSET and a companion
\* count statement.
C21_ShapeByIntent ==
    /\ \A t \in threads :
          pc[t] = "execute" =>
              LET stmt   == loc[t].stmt
                  intent == IntentOf(loc[t].req)
              IN  /\ intent = "avg_by_dept" => GroupedAverage(stmt)
                  /\ intent = "top_paid_each_dept" =>
                         RankedTop(stmt, AskedTop(loc[t].req.q))
                  /\ intent \in Unpaged =>
                         /\ stmt.count_sql = NoSql
                         /\ CountOf(stmt.sql, "LIMIT") = 0
                         /\ CountOf(stmt.sql, "OFFSET") = 0
                  /\ intent \in {"select", "find_one"} =>
                         /\ stmt.count_sql # NoSql
                         /\ CountOf(stmt.sql, "LIMIT") >= 1
                         /\ CountOf(stmt.sql, "OFFSET") >= 1
    /\ \A i \in SqlCalls :
          IntentOf(calls[i].req) \in Unpaged =>
              SqlPart(calls[i]).pagination = Absent

\* ------------------------------------------------------------------- C22
\* the email column of the mapping detected for the database of r
EmailColumn(r) == _detect_schema(Database(ConnStrOf(r.cs))).emp.email

\* the query of r has an exact email lookup; a "missing email" filter
EmailLookup(r) ==
    "email_exact" \in DOMAIN _infer_filters(_normalize_tokens(r.q)).params
EmailMissing(r) ==
    Has(_infer_filters(_normalize_tokens(r.q)).where, "EMAIL_IS_MISSING")

\* the two envelopes of a query that needs the email column
EmailErrorEnvelope ==
    [type |-> "sql", sql |-> NoSql, params |-> <<>>, rows |-> <<>>,
     pagination |-> Absent,
     error |-> "error: not present in your database (email column missing)"]
EmailWarningEnvelope ==
    [type |-> "sql", sql |-> NoSql, params |-> <<>>, rows |-> <<>>,
     pagination |-> Absent,
     warning |-> "Email column not present; cannot filter for missing email."]

\* the envelope env carries the message kind field, no rows and no statement
Refusal(e, field) ==
    /\ field \in DOMAIN e
    /\ e[field] # ""
    /\ "rows" \in DOMAIN e /\ e.rows = <<>>
    /\ "sql" \in DOMAIN e /\ e.sql = NoSql

\* no statement is prepared or executed while a call is at work on a query
\* that needs the email column of a mapping that has none
NothingExecuted ==
    \A t \in threads :
        /\ loc[t].req # Absent
        /\ EmailColumn(loc[t].req) = None
        /\ EmailLookup(loc[t].req) \/ EmailMissing(loc[t].req)
        => /\ pc[t] # "execute"
           /\ loc[t].stmt = Absent

\* with an email column in the mapping neither envelope is returned
NoRefusalWithColumn ==
    \A i \in 1..Len(calls) :
        "sql" \in calls[i].ran /\ EmailColumn(calls[i].req) # None =>
            SqlPart(calls[i]) \notin {EmailErrorEnvelope, EmailWarningEnvelope}

\* C22 as stated: with no email column in the mapping, a query with an exact
\* email lookup gets an envelope with an error, a query with a "missing
\* email" filter gets an envelope with a warning, both with rows = [] and
\* sql = None, and no statement is executed; with an email column neither
\* envelope is returned.
C22_AsStated ==
    /\ NothingExecuted
    /\ NoRefusalWithColumn
    /\ \A i \in 1..Len(calls) :
          "sql" \in calls[i].ran /\ EmailColumn(calls[i].req) = None =>
              /\ EmailLookup(calls[i].req) =>
                     Refusal(SqlPart(calls[i]), "error")
              /\ EmailMissing(calls[i].req) =>
                     Refusal(SqlPart(calls[i]), "warning")

\* C22: with no email column in the mapping, a query with an exact email
\* lookup gets an envelope with an error, rows = [] and sql = None; a query
\* with a "missing email" filter gets the envelope with the warning, rows =
\* [] and sql = None, unless it also has an exact email lookup or names an
\* entity whose table the database lacks, and then it gets the envelope
\* with the error of that earlier check and no warning; no statement is
\* executed in either case; with an email column neither envelope is
\* returned.
C22_EmailGuard ==
    /\ NothingExecuted
    /\ NoRefusalWithColumn
    /\ \A i \in 1..Len(calls) :
          "sql" \in calls[i].ran /\ EmailColumn(calls[i].req) = None =>
              /\ EmailLookup(calls[i].req) =>
                     Refusal(SqlPart(calls[i]), "error")
              /\ EmailMissing(calls[i].req) =>
                     IF EmailLookup(calls[i].req)
                        \/ EntitiesAbsent(calls[i].req) # {}
                     THEN /\ Refusal(SqlPart(calls[i]), "error")
                          /\ "warning" \notin DOMAIN SqlPart(calls[i])
                     ELSE SqlPart(calls[i]) = EmailWarningEnvelope

\* a call for the employees without email, on a database whose mapping has
\* no email column, has returned the warning; another, with an exact email
\* lookup, the error
C22_Witness ==
    \E i \in 1..Len(calls) :
        /\ "sql" \in calls[i].ran
        /\ EmailColumn(calls[i].req) = None
        /\ \/ /\ calls[i].req.q = <<"employees", "without", "email">>
              /\ SqlPart(calls[i]) = EmailWarningEnvelope
           \/ /\ calls[i].req.q = <<"email:", "bob@company.com">>
              /\ SqlPart(calls[i]) = EmailErrorEnvelope

\* ------------------------------------------------------------------- C23
\* the places in the store of the chunks whose vector has the recorded length
KeptPlaces(rows) == {i \in 1..Len(rows) : Len(rows[i].vec) = rows[i].dim}

\* the dot product of two vectors of the same length
DotProduct(a, b) ==
    LET RECURSIVE Upto(_)
        Upto(n) == IF n = 0 THEN 0 ELSE a[n] * b[n] + Upto(n - 1)
    IN  Upto(Len(a))

\* the chunk at place i goes before the chunk at place j: its score is
\* higher, or the same and it is stored first
GoesBefore(rows, q_vec, i, j) ==
    \/ DotProduct(rows[i].vec, q_vec) > DotProduct(rows[j].vec, q_vec)
    \/ /\ DotProduct(rows[i].vec, q_vec) = DotProduct(rows[j].vec, q_vec)
       /\ i < j

\* the kept chunks as results, by descending score, equal scores in storage
\* order
RankedResults(rows, q_vec) ==
    LET kept == KeptPlaces(rows)
        PlaceAt(k) ==
            CHOOSE i \in kept :
                Cardinality({j \in kept : GoesBefore(rows, q_vec, j, i)}) = k - 1
    IN  [k \in 1..Cardinality(kept) |->
            [text |-> rows[PlaceAt(k)].text,
             score |-> DotProduct(rows[PlaceAt(k)].vec, q_vec)]]

\* s[from:to] for 0 <= from <= to
Page(s, from, to) ==
    [k \in 1..(IF Len(s) < to THEN Len(s) - from ELSE to - from) |->
        s[from + k]]

BelongingTo(w) ==
    Cardinality({k \in 1..Len(People) :
        /\ "dept" \in DOMAIN People[k]
        /\ \E d \in 1..Len(Departments) :
              /\ Departments[d].id = People[k].dept
              /\ Departments[d].name = <<w>>})

\* C24: a call for "How many employees are in Engineering" whose statement
\* the database has run returns one row, and its count is the number of
\* employees that belong to the Engineering department.
C24_CountsDepartment ==
    \A i \in SqlCalls :
        /\ calls[i].req.q = <<"How", "many", "employees", "are", "in",
                              "Engineering">>
        /\ "error" \notin DOMAIN SqlPart(calls[i])
        => /\ IntentOf(calls[i].req) = "count"
           /\ Len(SqlPart(calls[i]).rows) = 1
           /\ SqlPart(calls[i]).rows[1].count = BelongingTo("engineering")

\* ------------------------------------------------------------------- C25
\* the place in the batch of the first file that raises (0: none does)
FirstRaising(files) ==
    IF \A k \in 1..Len(files) : ~files[k].raises THEN 0
    ELSE CHOOSE k \in 1..Len(files) :
            /\ files[k].raises
            /\ \A j \in 1..(k - 1) : ~files[j].raises

\* the job from its creation until start_ingestion_job returns: it is
\* running, created with processed_files = 0, and the processed_files written
\* while start_ingestion_job runs are 0, 1, 2, ... and never more than
\* total_files
WhileRunning ==
    job_run.pc # "none" =>
        /\ JobId \in DOMAIN jobs
        /\ jobs[JobId].total_files = Len(job_run.files)
        /\ jobs[JobId].processed_files <= jobs[JobId].total_files
        /\ job_run.pc = "queued" =>
               /\ jobs[JobId].status = "running"
               /\ jobs[JobId].processed_files = 0
        /\ job_run.pc \in {"loop", "except"} =>
               jobs[JobId].status = "running"
        /\ \A k \in 1..Len(job_run.written) :
               /\ job_run.written[k] = k - 1
               /\ job_run.written[k] <= jobs[JobId].total_files
        /\ job_run.written # <<>> =>
               jobs[JobId].processed_files
                   = job_run.written[Len(job_run.written)]

\* the job once start_ingestion_job has returned: completed with every file
\* processed and none raising, or failed at the first file that raised, with
\* the files before it processed and no other
Ended(j, files) ==
    \/ /\ j.status = "completed"
       /\ j.processed_files = j.total_files
       /\ FirstRaising(files) = 0
       /\ j.error = None
    \/ /\ j.status = "failed"
       /\ FirstRaising(files) # 0
       /\ j.processed_files = FirstRaising(files) - 1
       /\ j.error # None

\* C25 as stated: a job is created running with processed_files = 0; while
\* start_ingestion_job runs processed_files goes up by one per file and is
\* never more than total_files; once it has returned the job is completed
\* with processed_files = total_files, or failed, at the first file that
\* raised, with an error string that is not empty.
C25_AsStated ==
    /\ WhileRunning
    /\ job_run.pc = "returned" =>
           /\ Ended(jobs[JobId], job_run.files)
           /\ jobs[JobId].status = "failed" => jobs[JobId].error # ""

\* C25: the same, with the error string of a failed job being str(e) of the
\* exception of the file that raised, which is empty when the exception
\* carries no message.
C25_JobLifecycle ==
    /\ WhileRunning
    /\ job_run.pc = "returned" =>
           /\ Ended(jobs[JobId], job_run.files)
           /\ jobs[JobId].status = "failed" =>
                  jobs[JobId].error
                      = job_run.files[FirstRaising(job_run.files)].message

\* a job of three files has failed at its second file, with one file
\* processed
C25_Witness ==
    /\ job_run.pc = "returned"
    /\ Len(job_run.files) = 3
    /\ FirstRaising(job_run.files) = 2
    /\ jobs[JobId].status = "failed"
    /\ jobs[JobId].processed_files = 1
    /\ jobs[JobId].error = "File is not a zip file"
    /\ job_run.written = <<0, 1>>

\* ------------------------------------------------------------------ C26
\* the three counters did not go down
CountersKept ==
    /\ metrics'.total_queries >= metrics.total_queries
    /\ metrics'.cache_hits >= metrics.cache_hits
    /\ metrics'.cache_misses >= metrics.cache_misses

\* a process_query call returns
CallReturns == ~Idle /\ Idle'

\* C26: counter consistency with one caller. Between calls, also after
\* reset_metrics calls between them, total_queries equals cache_hits +
\* cache_misses; a call that returns has raised total_queries by exactly one
\* (both sides equal the number of calls returned since the last reset, which
\* the return raises by one), and since no counter goes down but in
\* reset_metrics, exactly one of cache_hits and cache_misses by one.
C26_CounterConsistency ==
    [][/\ Idle' =>
            /\ metrics'.total_queries =
                   metrics'.cache_hits + metrics'.cache_misses
            /\ metrics'.total_queries = completed'
       /\ ResetMetrics \/ CountersKept
       /\ CallReturns => completed' = completed + 1
       /\ ~CallReturns => (ResetMetrics \/ completed' = completed)]_vars

\* calls before a reset_metrics call, and a hit and a miss after it
C26_Witness ==
    /\ Idle
    /\ was_reset
    /\ Len(history) > completed
    /\ metrics.cache_hits = 1
    /\ metrics.cache_misses = 1
    /\ metrics.total_queries = 2

\* ------------------------------------------------------------------ C27
\* C27: the activity gauges are never negative, also when reset_metrics runs
\* while a query or a connection scope is in flight, and both are 0 whenever
\* no process_query call is in progress.
C27_GaugesNeverNegative ==
    /\ metrics.active_queries >= 0
    /\ metrics.active_connections >= 0
    /\ Idle => /\ metrics.active_queries = 0
               /\ metrics.active_connections = 0

\* ------------------------------------------------------------------ C28
\* the envelope tells of a failed path: its own error, or that of a part
HasError(res) == "error" \in DOMAIN res
FailedEnvelope(result) ==
    \/ HasError(result)
    \/ /\ result.type = "hybrid"
       /\ HasError(result.sql) \/ HasError(result.documents)

\* what a miss would compute for the request r now, from the database that
\* is behind its connection string and the document store as they are
ComputedNow(r) ==
    ComputedOn([r EXCEPT !.cs = env.db[ConnStrOf(r.cs)]], env.ingest)

\* C28: every miss stores its envelope under the key of its call, error
\* envelopes included. After a call that missed and whose SQL or document
\* path failed, the next call with the same arguments is a hit: it returns
\* the same envelope (but for its metrics) and runs neither path, whatever
\* has become of the database and of the document store in between.
C28_ErrorsAreCached ==
    /\ (/\ Idle
        /\ Len(calls) >= 1
        /\ calls[Len(calls)].result.metrics.cache = "miss") =>
           LRUGetValue(cache, CacheKey(calls[Len(calls)].req))
               = Payload(calls[Len(calls)].result)
    /\ (/\ Len(calls) = 2
        /\ calls[1].result.metrics.cache = "miss"
        /\ FailedEnvelope(calls[1].result)
        /\ calls[2].req = calls[1].req) =>
           /\ calls[2].result.metrics.cache = "hit"
           /\ Payload(calls[2].result) = Payload(calls[1].result)
           /\ calls[2].ran = {}
           /\ calls[2].raised = {}

\* a hit that returned the error envelope of the call before it, when a miss
\* would now compute an envelope without error
C28_Witness ==
    /\ Idle
    /\ Len(calls) = 2
    /\ calls[1].result.metrics.cache = "miss"
    /\ FailedEnvelope(calls[1].result)
    /\ calls[2].req = calls[1].req
    /\ calls[2].result.metrics.cache = "hit"
    /\ FailedEnvelope(calls[2].result)
    /\ ~FailedEnvelope(ComputedNow(calls[2].req))

====
